---------------------------- MODULE Spec2Model ----------------------------
(***************************************************************************)
(* A model of the zkpoker table engine: the deterministic shuffle          *)
(* (core/flat_deck.rs), the dealing orchestrator                           *)
(* (table_functions/deal_functions.rs), the showdown distribution          *)
(* (table_functions/showdown.rs) and the pot-limit betting rules that the  *)
(* tests of table_functions/tests exercise.                                *)
(*                                                                         *)
(* Cards are the numbers 0..51 in the order FlatDeck::new creates them     *)
(* (value-major, suit-minor); money is in units of one small blind of the  *)
(* test tables (convert_to_e8s(1.0)).                                      *)
(***************************************************************************)
EXTENDS Integers, Sequences, FiniteSets, TLC

VARIABLES
    fd,      \* the FlatDeck of the shuffle specification: [cards]
    runs,    \* seed bytes -> the cards FlatDeck::new gave for them earlier
    table,   \* the Table (its fields as a record)
    prev,    \* the Table at entry to the last operation
    env,     \* what the collaborators outside the table return (ranks, rake)
    op,      \* the last operation and its arguments
    ret      \* what the last operation returned

vars == <<fd, runs, table, prev, env, op, ret>>

(***************************************************************************)
(* Cards                                                                   *)
(***************************************************************************)
NumValues == 13
NumSuits == 4
NumCards == NumValues * NumSuits

Cards == 0 .. (NumCards - 1)

\* Card { value, suit } of the card created at position c of FlatDeck::new
CardValue(c) == c \div NumSuits
CardSuit(c) == c % NumSuits

\* the deck FlatDeck::new builds before shuffling: for v in values, for s in suits
SortedCards == [k \in 1 .. NumCards |-> k - 1]

Range(s) == {s[k] : k \in DOMAIN s}

\* cards holds every one of the 52 cards exactly once
IsFullDeck(cards) ==
    /\ Len(cards) = NumCards
    /\ \A c \in Cards : Cardinality({k \in DOMAIN cards : cards[k] = c}) = 1

Min(a, b) == IF a <= b THEN a ELSE b

(***************************************************************************)
(* The ChaCha20 generator (crate rand_chacha) is outside the repository.   *)
(* It is a deterministic stream keyed by the 32-byte seed; here the word   *)
(* at position pos is a fixed mixing function of the seed and pos.         *)
(***************************************************************************)
SeedLen == 32
WordMod == 65536

RECURSIVE SeedDigest(_, _)
SeedDigest(seed, k) ==
    IF k = 0 THEN 0
    ELSE (SeedDigest(seed, k - 1) * 31 + seed[k] * k + 7) % WordMod

\* ChaCha20Rng::from_seed(seed)
from_seed(seed) == [key |-> SeedDigest(seed, SeedLen), pos |-> 0]

\* rng.next_u32(): the word drawn and the generator after the draw
next_u32(rng) ==
    [word |-> (rng.key * (2 * rng.pos + 1) + 40503 * rng.pos
               + 97 * rng.pos * rng.pos + 11) % WordMod,
     rng  |-> [rng EXCEPT !.pos = @ + 1]]

(***************************************************************************)
(* FlatDeck                                                                *)
(***************************************************************************)
ByteMod == 256

\* the limit below which unbiased_index accepts a byte
index_limit(upper) ==
    LET max == ByteMod IN max - (max % upper)

\* a pass of the loop that accepts every byte
sample_no_reject(word, upper) ==
    LET byte == word % ByteMod IN <<byte % upper>>

\* one pass of the loop of unbiased_index over the drawn word: <<index>> when
\* the byte is accepted, <<>> when it is rejected
sample(word, upper) ==
    LET byte == word % ByteMod
    IN  IF byte < index_limit(upper) THEN <<byte % upper>> ELSE <<>>

\* unbiased_index: rejection sampling over one byte of each drawn word
RECURSIVE unbiased_index(_, _)
unbiased_index(rng, upper) ==
    LET d == next_u32(rng)
        s == sample(d.word, upper)
    IN  IF s # <<>>
        THEN [index |-> s[1], rng |-> d.rng]
        ELSE unbiased_index(d.rng, upper)

\* a swap that loses the card at i
swap_overwrite(cards, i, j) == [cards EXCEPT ![i + 1] = cards[j + 1]]

\* self.cards.swap(i, j), positions counted from 0
swap(cards, i, j) ==
    [cards EXCEPT ![i + 1] = cards[j + 1], ![j + 1] = cards[i + 1]]

\* the loop of shuffle from position i on
RECURSIVE shuffle_from(_, _, _)
shuffle_from(cards, rng, i) ==
    LET n == Len(cards) IN
    IF i >= n - 1 THEN cards
    ELSE LET remaining == n - i
             r         == unbiased_index(rng, remaining)
             j         == i + r.index
         IN  shuffle_from(swap(cards, i, j), r.rng, i + 1)

\* the seed of shuffle: up to 32 bytes of rand_bytes, the rest zero
seed_of(rand_bytes) ==
    LET copy_len == Min(Len(rand_bytes), SeedLen)
    IN  [k \in 1 .. SeedLen |-> IF k <= copy_len THEN rand_bytes[k] ELSE 0]

\* FlatDeck::shuffle(&mut self, rand_bytes)
shuffle(cards, rand_bytes) ==
    IF Len(cards) <= 1 THEN cards
    ELSE shuffle_from(cards, from_seed(seed_of(rand_bytes)), 0)

\* a deck that is built from the cards at hand once there are some
FlatDeckNewReuse(bytes) ==
    shuffle(IF fd.cards = <<>> THEN SortedCards ELSE fd.cards, bytes)

\* FlatDeck::new(bytes)
FlatDeckNew(bytes) == shuffle(SortedCards, bytes)

\* a deal that reads the last card and leaves it on the deck
deal_peek(cards) ==
    IF Len(cards) = 0 THEN [card |-> -1, cards |-> cards]
    ELSE [card |-> cards[Len(cards)], cards |-> cards]

\* FlatDeck::deal: pop from the tail
deal(cards) ==
    IF Len(cards) = 0 THEN [card |-> -1, cards |-> cards]
    ELSE [card |-> cards[Len(cards)], cards |-> SubSeq(cards, 1, Len(cards) - 1)]

(***************************************************************************)
(* Seeds of the model: byte sequences of the lengths below                 *)
(***************************************************************************)
MaxSeedMul == 2
SeedLengths == {0, 5, 32, 40}
SeedBytes(len, mul) == [k \in 1 .. len |-> (mul * k + 1) % 256]
Seeds == {SeedBytes(len, mul) : len \in SeedLengths, mul \in 1 .. MaxSeedMul}

NoTable == [deal_stage |-> "Fresh"]
NoEnv == [rank |-> <<>>]
NoFd == [cards |-> <<>>]
NoRuns == <<>>

(***************************************************************************)
(* The shuffle specification: FlatDeck::new, shuffle and deal on one deck  *)
(***************************************************************************)
MaxDeals == 1

\* op.news counts the decks built so far (at most two are built); a deck is
\* reshuffled in place at most once
ShuffleInit ==
    /\ fd = NoFd
    /\ runs = NoRuns
    /\ op = [name |-> "none", bytes |-> <<>>, news |-> 0, reshuffled |-> FALSE]
    /\ ret = "Ok"
    /\ table = NoTable /\ prev = NoTable /\ env = NoEnv

New(bytes) ==
    /\ op.news < 2
    /\ LET cards == FlatDeckNew(bytes) IN
       /\ fd' = [cards |-> cards]
       /\ runs' = IF bytes \in DOMAIN runs THEN runs
                  ELSE [s \in DOMAIN runs \cup {bytes} |->
                          IF s = bytes THEN cards ELSE runs[s]]
    /\ op' = [name |-> "new", bytes |-> bytes, news |-> op.news + 1,
              reshuffled |-> FALSE]
    /\ ret' = "Ok"
    /\ UNCHANGED <<table, prev, env>>

Shuffle(bytes) ==
    /\ ~op.reshuffled
    /\ fd' = [cards |-> shuffle(fd.cards, bytes)]
    /\ op' = [op EXCEPT !.name = "shuffle", !.bytes = bytes, !.reshuffled = TRUE]
    /\ ret' = "Ok"
    /\ UNCHANGED <<runs, table, prev, env>>

Deal ==
    /\ Len(fd.cards) > NumCards - MaxDeals
    /\ LET d == deal(fd.cards) IN
       /\ fd' = [cards |-> d.cards]
       /\ ret' = IF d.card = -1 THEN "None" ELSE "Some"
    /\ op' = [op EXCEPT !.name = "deal", !.bytes = <<>>]
    /\ UNCHANGED <<runs, table, prev, env>>

ShuffleNext ==
    \/ \E bytes \in Seeds : New(bytes)
    \/ \E bytes \in Seeds : Shuffle(bytes)
    \/ Deal

SpecShuffle == ShuffleInit /\ [][ShuffleNext]_vars

\* C1: whatever the seed bytes (none, fewer than 32, 32, more than 32), the
\* deck FlatDeck::new returns holds each of the 52 cards exactly once.
C1_NewIsPermutation ==
    op.name = "new" => IsFullDeck(fd.cards)

\* a deck built from more than 32 seed bytes, and not left in sorted order
C1_Witness ==
    /\ op.name = "new"
    /\ Len(op.bytes) > SeedLen
    /\ fd.cards # SortedCards
    /\ IsFullDeck(fd.cards)

None == 0
Empty == 0

GameTypes ==
    {"NoLimit", "FixedLimit", "SpreadLimit", "PotLimit",
     "PotLimitOmaha4", "PotLimitOmaha5"}

DealStages == {"Fresh", "Opening", "Flop", "Turn", "River", "Showdown"}

\* the principals of the occupied seats, in seat order
occupied_principals(seats) ==
    SelectSeq(seats, LAMBDA seat : seat # Empty)

\* self.log_action(None, action_type)
log_action(t, action_type) ==
    [t EXCEPT !.action_logs = Append(@, action_type)]

\* the records that hold this card and have no owner yet, of any round
provenance_matches_of_any_round(t, card) ==
    {k \in DOMAIN t.card_provenance :
        /\ CardValue(t.card_provenance[k].card) = CardValue(card)
        /\ CardSuit(t.card_provenance[k].card) = CardSuit(card)
        /\ t.card_provenance[k].dealt_to = None}

\* the provenance records update_card_provenance may pick: those of the
\* current round that hold this card and have no owner yet
provenance_matches(t, card) ==
    {k \in DOMAIN t.card_provenance :
        /\ t.card_provenance[k].round_id = t.round_ticker
        /\ CardValue(t.card_provenance[k].card) = CardValue(card)
        /\ CardSuit(t.card_provenance[k].card) = CardSuit(card)
        /\ t.card_provenance[k].dealt_to = None}

\* a deal that writes nothing to the ledger
update_card_provenance_skipped(t, card, dealt_to, dealt_at_stage) == t

\* Table::update_card_provenance: the first matching record is updated; when
\* there is none the table is left as it is
update_card_provenance(t, card, dealt_to, dealt_at_stage) ==
    LET found == provenance_matches(t, card) IN
    IF found = {} THEN t
    ELSE LET k == CHOOSE x \in found : TRUE IN
         [t EXCEPT !.card_provenance[k].dealt_to = dealt_to,
                   !.card_provenance[k].dealt_at_stage = dealt_at_stage]

\* is_sitting_out of deal_opening_cards: no table data counts as sitting out
is_sitting_out(t, user_principal) ==
    IF user_principal \in DOMAIN t.user_table_data
    THEN t.user_table_data[user_principal].player_action = "SittingOut"
    ELSE TRUE

\* two hole cards whatever the game
num_hole_cards_of_holdem(game_type) == 2

num_hole_cards(game_type) ==
    CASE game_type = "PotLimitOmaha4" -> 4
      [] game_type = "PotLimitOmaha5" -> 5
      [] OTHER -> 2

\* the two loops of deal_opening_cards from the idx-th (pass, seat) pair on
RECURSIVE deal_opening_loop(_, _, _, _)
deal_opening_loop(t, occupied, idx, total) ==
    IF idx > total THEN [table |-> t, ret |-> "Ok"]
    ELSE
      LET user_principal == occupied[((idx - 1) % Len(occupied)) + 1] IN
      IF is_sitting_out(t, user_principal)
      THEN deal_opening_loop(t, occupied, idx + 1, total)
      ELSE
        LET d == deal(t.deck) IN
        IF d.card = -1 THEN [table |-> t, ret |-> "NoCardsLeft"]
        ELSE
          LET t1 == [t EXCEPT !.deck = d.cards]
              t2 == update_card_provenance(t1, d.card, user_principal, "Opening")
              t3 == IF user_principal \in DOMAIN t2.user_table_data
                    THEN [t2 EXCEPT !.user_table_data[user_principal].cards =
                                        Append(@, d.card)]
                    ELSE t2
          IN  deal_opening_loop(t3, occupied, idx + 1, total)

\* Table::deal_opening_cards
deal_opening_cards(t) ==
    LET occupied == occupied_principals(t.seats)
        total    == num_hole_cards(t.config.game_type) * Len(occupied)
        r        == deal_opening_loop(t, occupied, 1, total)
    IN  IF r.ret # "Ok" THEN r
        ELSE [table |-> [r.table EXCEPT !.deal_stage = "Flop"], ret |-> "Ok"]

\* Table::burn_card
burn_card(t) ==
    LET d == deal(t.deck) IN
    IF d.card = -1 THEN [table |-> t, ret |-> "NoCardsLeft"]
    ELSE [table |-> [t EXCEPT !.deck = d.cards, !.burned = Append(@, d.card)],
          ret |-> "Ok"]

\* Table::deal_card
deal_card(t) ==
    LET d == deal(t.deck) IN
    IF d.card = -1 THEN [table |-> t, ret |-> "NoCardsLeft"]
    ELSE LET t1 == [t EXCEPT !.deck = d.cards]
             t2 == update_card_provenance(t1, d.card, None, t1.deal_stage)
         IN  [table |-> [t2 EXCEPT !.community_cards = Append(@, d.card)],
              ret |-> "Ok"]

\* n calls of deal_card, stopping at the first that fails
RECURSIVE deal_card_times(_, _)
deal_card_times(t, n) ==
    IF n = 0 THEN [table |-> t, ret |-> "Ok"]
    ELSE LET r == deal_card(t) IN
         IF r.ret # "Ok" THEN r ELSE deal_card_times(r.table, n - 1)

\* Table::burn_and_deal
burn_and_deal(t) ==
    LET b == burn_card(t) IN
    IF b.ret # "Ok" THEN b ELSE deal_card(b.table)

\* Table::deal_flop_cards
deal_flop_cards(t) ==
    LET b == burn_card(t) IN
    IF b.ret # "Ok" THEN b
    ELSE LET r == deal_card_times(b.table, 3) IN
         IF r.ret # "Ok" THEN r
         ELSE [table |-> [r.table EXCEPT !.deal_stage = "Turn"], ret |-> "Ok"]

\* a turn that goes straight to the showdown
deal_turn_card_skipping(t) ==
    LET r == burn_and_deal(t) IN
    IF r.ret # "Ok" THEN r
    ELSE [table |-> [r.table EXCEPT !.deal_stage = "Showdown"], ret |-> "Ok"]

\* Table::deal_turn_card
deal_turn_card(t) ==
    LET r == burn_and_deal(t) IN
    IF r.ret # "Ok" THEN r
    ELSE [table |-> [r.table EXCEPT !.deal_stage = "River"], ret |-> "Ok"]

\* Table::deal_river_card
deal_river_card(t) ==
    LET r == burn_and_deal(t) IN
    IF r.ret # "Ok" THEN r
    ELSE [table |-> [r.table EXCEPT !.deal_stage = "Showdown"], ret |-> "Ok"]


(***************************************************************************)
(* Parts of Table whose code is outside the files at hand (table.rs,       *)
(* side_pot.rs), written from the specification.                           *)
(***************************************************************************)
\* SidePot::confirm_pot: the pending amount becomes the confirmed total
confirm_pot(side_pot) == [side_pot EXCEPT !.confirmed_pot = side_pot.pot]

\* Table::clean_up_side_pots: succeeds; its effect on side pots is not modelled
clean_up_side_pots(t) == [table |-> t, ret |-> "Ok"]

\* Table::get_side_pot_mut().confirm_pot(): the side pot being filled is the last
confirm_active_side_pot(t) ==
    IF t.side_pots = <<>> THEN [table |-> t, ret |-> "Other"]
    ELSE [table |-> [t EXCEPT !.side_pots[Len(t.side_pots)] = confirm_pot(@)],
          ret |-> "Ok"]

\* whether the player at seat index i (from 0) can be given the turn
can_act(t, i) ==
    LET seat == t.seats[i + 1] IN
    /\ seat # Empty
    /\ seat \in DOMAIN t.user_table_data
    /\ t.user_table_data[seat].player_action
          \notin {"Folded", "AllIn", "SittingOut", "Joining"}

\* the first seat index after i, going round, whose player can act; i itself
\* when a full round finds none
RECURSIVE next_to_act(_, _, _)
next_to_act(t, i, tried) ==
    LET j == (i + 1) % Len(t.seats) IN
    IF tried >= Len(t.seats) THEN i
    ELSE IF can_act(t, j) THEN j
    ELSE next_to_act(t, j, tried + 1)

\* Table::prepare_user_actions: the players still in the hand start the next
\* stage with no action and no bet of the stage, the turn goes to the first
\* of them left of the dealer
prepare_user_actions(t, is_cycling_to_showdown) ==
    LET data == [p \in DOMAIN t.user_table_data |->
                   IF t.user_table_data[p].player_action
                        \in {"Folded", "AllIn", "SittingOut", "Joining"}
                   THEN t.user_table_data[p]
                   ELSE [t.user_table_data[p] EXCEPT !.player_action = "None"]]
        t1   == [t EXCEPT !.user_table_data = data]
    IN  [table |-> [t1 EXCEPT !.current_player_index =
                                 next_to_act(t1, t1.dealer_position, 0)],
         ret |-> "Ok"]

(***************************************************************************)
(* Table::deal_cards                                                       *)
(***************************************************************************)
\* an end of deal_cards that keeps the betting markers of the stage before
deal_cards_finish_keeps_bets(t, is_cycling_to_showdown) ==
    LET c == IF t.is_side_pot_active /\ ~is_cycling_to_showdown
             THEN confirm_active_side_pot(t)
             ELSE [table |-> t, ret |-> "Ok"]
    IN  IF c.ret # "Ok" THEN c
        ELSE prepare_user_actions(c.table, is_cycling_to_showdown)

\* what deal_cards does once the cards of the stage are dealt
deal_cards_finish(t, is_cycling_to_showdown) ==
    LET c == IF t.is_side_pot_active /\ ~is_cycling_to_showdown
             THEN confirm_active_side_pot(t)
             ELSE [table |-> t, ret |-> "Ok"]
    IN  IF c.ret # "Ok" THEN c
        ELSE LET u == prepare_user_actions(c.table, is_cycling_to_showdown) IN
             IF u.ret # "Ok" THEN u
             ELSE [table |-> [u.table EXCEPT !.highest_bet = 0,
                                             !.highest_bet_in_pot = 0,
                                             !.last_raise = 0],
                   ret |-> "Ok"]

\* Table::deal_cards(is_cycling_to_showdown): the table it leaves and its result
deal_cards(t, is_cycling_to_showdown) ==
    LET c == clean_up_side_pots(t) IN
    IF c.ret # "Ok" THEN c
    ELSE
      LET t1 == log_action(c.table, [type |-> "Stage", stage |-> c.table.deal_stage])
      IN  CASE t1.deal_stage = "Opening" -> deal_opening_cards(t1)
            [] t1.deal_stage = "Flop" ->
                 LET r == deal_flop_cards(t1) IN
                 IF r.ret # "Ok" THEN r
                 ELSE deal_cards_finish(r.table, is_cycling_to_showdown)
            [] t1.deal_stage = "Turn" ->
                 LET r == deal_turn_card(t1) IN
                 IF r.ret # "Ok" THEN r
                 ELSE deal_cards_finish(r.table, is_cycling_to_showdown)
            [] t1.deal_stage = "River" ->
                 LET r == deal_river_card(t1) IN
                 IF r.ret # "Ok" THEN r
                 ELSE deal_cards_finish(r.table, is_cycling_to_showdown)
            [] OTHER -> deal_cards_finish(t1, is_cycling_to_showdown)


(***************************************************************************)
(* The dealing specification: a round from the moment start_betting_round  *)
(* has shuffled the deck, created the round's provenance records and       *)
(* posted the blinds, driven by deal_cards.                                *)
(***************************************************************************)
MinSeats == 2
MaxSeats == 10
SmallBlind == 1
BigBlind == 2
StartBalance == 100

MaxLog == 5
NumDealSeeds == 2
DealSeeds == {SeedBytes(9, mul) : mul \in 1 .. NumDealSeeds}

SeatPatterns == {"full", "empty_seat", "sitting_out_first", "sitting_out_last",
                 "no_table_data"}

\* the seats of a table of S seats: principal k at seat k, seat 2 empty in
\* the pattern "empty_seat"
seats_of(S, pattern) ==
    [k \in 1 .. S |-> IF pattern = "empty_seat" /\ k = 2 THEN Empty ELSE k]

\* the provenance ledger at the start of round r: 52 records of the round,
\* none dealt, beside the records of round r - 1, of which nine were dealt
provenance_at_start(r) ==
    [k \in {r - 1, r} \X Cards |->
        IF k[1] = r
        THEN [round_id |-> r, card |-> k[2], dealt_to |-> None,
              dealt_at_stage |-> "None"]
        ELSE [round_id |-> r - 1, card |-> k[2],
              dealt_to |-> IF k[2] < 4 THEN (k[2] % 2) + 1 ELSE None,
              dealt_at_stage |->
                  CASE k[2] < 4 -> "Opening"
                    [] k[2] \in 4 .. 6 -> "Flop"
                    [] k[2] = 7 -> "Turn"
                    [] k[2] = 8 -> "River"
                    [] OTHER -> "None"]]

\* a start of the round that names the blind players and posts nothing
post_blinds_unposted(t) ==
    LET sb_index == next_to_act(t, t.dealer_position, 0)
        bb_index == next_to_act(t, sb_index, 0)
    IN  [t EXCEPT !.small_blind_user_principal = t.seats[sb_index + 1],
                  !.big_blind_user_principal = t.seats[bb_index + 1],
                  !.current_player_index = next_to_act(t, bb_index, 0)]

\* the table once the blinds are posted (Table::start_betting_round, from the
\* specification): the first player left of the dealer posts the small
\* blind, the next the big blind, the turn goes to the player after
post_blinds(t) ==
    LET sb_index == next_to_act(t, t.dealer_position, 0)
        bb_index == next_to_act(t, sb_index, 0)
        sb       == t.seats[sb_index + 1]
        bb       == t.seats[bb_index + 1]
    IN  [t EXCEPT !.user_table_data[sb].current_total_bet = t.small_blind,
                  !.users[sb].balance = @ - t.small_blind,
                  !.user_table_data[bb].current_total_bet = t.big_blind,
                  !.users[bb].balance = @ - t.big_blind,
                  !.highest_bet = t.big_blind,
                  !.highest_bet_in_pot = t.big_blind,
                  !.last_raise = t.big_blind,
                  !.small_blind_user_principal = sb,
                  !.big_blind_user_principal = bb,
                  !.current_player_index = next_to_act(t, bb_index, 0)]

\* a table at the start of round round_ticker, before the hole cards
round_start(seats, sitting_out, no_data, game_type, bytes, dealer_position, round_ticker) ==
    LET occupied == Range(seats) \ {Empty} IN
    post_blinds(
      [config |-> [game_type |-> game_type, seats |-> Len(seats),
                   enable_rake |-> "None", currency_type |-> "Fake"],
       seats |-> seats,
       users |-> [p \in occupied |-> [balance |-> StartBalance]],
       user_table_data |->
           [p \in occupied \ no_data |->
               [player_action |-> IF p \in sitting_out THEN "SittingOut" ELSE "None",
                cards |-> <<>>,
                current_total_bet |-> 0]],
       deck |-> FlatDeckNew(bytes),
       community_cards |-> <<>>,
       burned |-> <<>>,
       pot |-> 0,
       side_pots |-> <<>>,
       is_side_pot_active |-> FALSE,
       deal_stage |-> "Opening",
       small_blind |-> SmallBlind,
       big_blind |-> BigBlind,
       small_blind_user_principal |-> None,
       big_blind_user_principal |-> None,
       dealer_position |-> dealer_position,
       current_player_index |-> 0,
       highest_bet |-> 0,
       highest_bet_in_pot |-> 0,
       last_raise |-> 0,
       winners |-> "None",
       sorted_users |-> <<>>,
       action_logs |-> <<>>,
       round_ticker |-> round_ticker,
       rake_config |-> <<>>,
       rake_total |-> <<>>,
       card_provenance |-> provenance_at_start(round_ticker)])

DealInit ==
    /\ \E S \in MinSeats .. MaxSeats, pattern \in SeatPatterns,
          game_type \in GameTypes, bytes \in DealSeeds :
         \E dealer_position \in {0, S - 1}, deal_stage \in {"Opening", "Fresh"} :
          /\ pattern # "full" => S >= 4
          /\ deal_stage = "Fresh" => (pattern = "full" /\ S = MinSeats)
          /\ table = [round_start(
                         seats_of(S, pattern),
                         CASE pattern = "sitting_out_first" -> {1}
                           [] pattern = "sitting_out_last" -> {S}
                           [] OTHER -> {},
                         IF pattern = "no_table_data" THEN {S} ELSE {},
                         game_type, bytes, dealer_position, 2)
                         EXCEPT !.deal_stage = deal_stage]
    /\ prev = table
    /\ op = [name |-> "start"]
    /\ ret = "Ok"
    /\ env = NoEnv /\ fd = NoFd /\ runs = NoRuns

DealCards(is_cycling_to_showdown) ==
    /\ Len(table.action_logs) < MaxLog
    /\ LET r == deal_cards(table, is_cycling_to_showdown) IN
       /\ table' = r.table
       /\ ret' = r.ret
    /\ prev' = table
    /\ op' = [name |-> "deal_cards"]
    /\ UNCHANGED <<env, fd, runs>>

DealNext == \E is_cycling_to_showdown \in BOOLEAN : DealCards(is_cycling_to_showdown)

SpecDeal == DealInit /\ [][DealNext]_vars

\* how many times card c is held by the players, the board, the burn pile
\* and the deck together
RECURSIVE CountIn(_, _)
CountIn(c, cards) ==
    IF cards = <<>> THEN 0
    ELSE (IF Head(cards) = c THEN 1 ELSE 0) + CountIn(c, Tail(cards))

RECURSIVE CountInHands(_, _, _)
CountInHands(c, t, players) ==
    IF players = {} THEN 0
    ELSE LET p == CHOOSE x \in players : TRUE IN
         CountIn(c, t.user_table_data[p].cards)
           + CountInHands(c, t, players \ {p})

Holdings(c, t) ==
    CountInHands(c, t, DOMAIN t.user_table_data)
      + CountIn(c, t.community_cards) + CountIn(c, t.burned) + CountIn(c, t.deck)


\* C3: in every state of a round driven by deal_cards, each of the 52 cards
\* is in exactly one place: a player's hole cards, the community cards, the
\* burned cards or the deck.
C3_CardsConserved ==
    \A c \in Cards : Holdings(c, table) = 1

\* the end of a round: five community cards, three burns, hole cards dealt
C3_Witness ==
    /\ op.name = "deal_cards"
    /\ table.deal_stage = "Showdown"
    /\ Len(table.community_cards) = 5
    /\ Len(table.burned) = 3
    /\ \E p \in DOMAIN table.user_table_data :
          Len(table.user_table_data[p].cards) = 4
    /\ \A c \in Cards : Holdings(c, table) = 1

\* C4 (as claimed): with 2 to 10 players in the hand and any game type,
\* dealing the hole cards, the flop, the turn and the river from a fresh
\* deck never returns NoCardsLeft.
C4_NoCardsLeftNeverOccurs ==
    ret # "NoCardsLeft"


(***************************************************************************)
(* Table::showdown                                                         *)
(*                                                                         *)
(* Hand::rank and Hand::rank_five are outside the files at hand: the rank  *)
(* of a player's best hand is an input, rank[p], and at a showdown every   *)
(* five-card hand of player p has that rank.  A ranked hand is a record    *)
(* of the principal, the rank and the cards shown.                         *)
(***************************************************************************)
IsOmaha(game_type) == game_type \in {"PotLimitOmaha4", "PotLimitOmaha5"}

\* CardIter::new(cards, k): the k-card combinations of cards, in the order of
\* their positions (the first card varies slowest)
RECURSIVE CardIter(_, _)
CardIter(cards, k) ==
    IF k = 0 THEN << <<>> >>
    ELSE IF Len(cards) < k THEN <<>>
    ELSE LET with_first == CardIter(Tail(cards), k - 1)
         IN  [i \in 1 .. Len(with_first) |-> <<Head(cards)>> \o with_first[i]]
             \o CardIter(Tail(cards), k)

\* a hand that replaces the best one when it ranks at least as high
outranks_or_ties(rank, best_rank) == rank >= best_rank

\* if rank > best_rank
outranks(rank, best_rank) == rank > best_rank

\* the inner loop, over the combinations of 3 community cards from the j-th on
RECURSIVE best_of_community_combos(_, _, _, _, _)
best_of_community_combos(hole_combo, community_combos, rank_five, j, best) ==
    IF j > Len(community_combos) THEN best
    ELSE LET five_card_hand == hole_combo \o community_combos[j]
             rank           == rank_five[five_card_hand]
         IN  IF outranks(rank, best.rank)
             THEN best_of_community_combos(hole_combo, community_combos, rank_five, j + 1,
                                           [rank |-> rank, hand |-> five_card_hand])
             ELSE best_of_community_combos(hole_combo, community_combos, rank_five, j + 1,
                                           best)

\* the outer loop, over the combinations of 2 hole cards from the i-th on
RECURSIVE best_of_hole_combos(_, _, _, _, _)
best_of_hole_combos(hole_combos, community_combos, rank_five, i, best) ==
    IF i > Len(hole_combos) THEN best
    ELSE LET after == {best_of_community_combos(hole_combos[i], community_combos,
                                                rank_five, 1, best)}
         IN  CHOOSE result \in {best_of_hole_combos(hole_combos, community_combos,
                                                    rank_five, i + 1, b) : b \in after} : TRUE

\* Table::get_best_omaha_hand: the two length checks, then the best rank over
\* the player's combinations; best_rank starts at Rank::HighCard(0), below the
\* rank of every hand, and best_hand at the empty Hand::default().  The
\* combinations and the ranks are each evaluated once, as members of
\* one-element sets.
get_best_omaha_hand(hole_cards, community_cards, rank_five) ==
    IF Len(hole_cards) < 2 THEN [ret |-> "Other"]
    ELSE IF Len(community_cards) < 3 THEN [ret |-> "Other"]
    ELSE CHOOSE result \in
             {[ret |-> "Ok", rank |-> best.rank, hand |-> best.hand,
               all_cards |-> hole_cards \o community_cards] :
                 best \in {best_of_hole_combos(hole_combos, community_combos, ranks, 1,
                                               [rank |-> 0, hand |-> <<>>]) :
                               hole_combos \in {CardIter(hole_cards, 2)},
                               community_combos \in {CardIter(community_cards, 3)},
                               ranks \in {rank_five}}} : TRUE

\* a descending sort that puts the later of two equal ranks first
RECURSIVE sort_by_rank_desc_unstable(_)
sort_by_rank_desc_unstable(hands) ==
    IF hands = <<>> THEN <<>>
    ELSE LET n      == Len(hands)
             h      == hands[n]
             sorted == sort_by_rank_desc_unstable(SubSeq(hands, 1, n - 1))
             k      == Cardinality({i \in 1 .. Len(sorted) : sorted[i].rank > h.rank})
         IN  SubSeq(sorted, 1, k) \o <<h>> \o SubSeq(sorted, k + 1, Len(sorted))

\* ranked_hands.sort_by(|a, b| b.2.cmp(&a.2)): stable, descending by rank
RECURSIVE sort_by_rank_desc(_)
sort_by_rank_desc(hands) ==
    IF hands = <<>> THEN <<>>
    ELSE LET n      == Len(hands)
             h      == hands[n]
             sorted == sort_by_rank_desc(SubSeq(hands, 1, n - 1))
             k      == Cardinality({i \in 1 .. Len(sorted) : sorted[i].rank >= h.rank})
         IN  SubSeq(sorted, 1, k) \o <<h>> \o SubSeq(sorted, k + 1, Len(sorted))

\* a showdown that leaves out the folded players only
is_folded(player_action) == player_action = "Folded"

\* the players get_ranked_hands leaves out: Folded, SittingOut or Joining
is_out_of_hand(player_action) ==
    player_action \in {"Folded", "SittingOut", "Joining"}

\* the loop of get_ranked_hands over the seats, from seat i on
RECURSIVE ranked_hands_loop(_, _, _, _)
ranked_hands_loop(t, rank, i, acc) ==
    IF i > Len(t.seats) THEN [ret |-> "Ok", hands |-> acc]
    ELSE LET p == t.seats[i] IN
      IF p = Empty THEN ranked_hands_loop(t, rank, i + 1, acc)
      ELSE IF p \notin DOMAIN t.user_table_data THEN [ret |-> "Other", hands |-> <<>>]
      ELSE IF is_out_of_hand(t.user_table_data[p].player_action)
           THEN ranked_hands_loop(t, rank, i + 1, acc)
      ELSE IF p \notin DOMAIN t.users THEN [ret |-> "PlayerNotFound", hands |-> <<>>]
      ELSE LET hole_cards == t.user_table_data[p].cards
               best == IF IsOmaha(t.config.game_type)
                       THEN get_best_omaha_hand(hole_cards, t.community_cards,
                                [five \in Seq(Cards) |-> rank[p]])
                       ELSE [ret |-> "Ok", rank |-> rank[p],
                             all_cards |-> hole_cards \o t.community_cards]
           IN  IF best.ret # "Ok" THEN [ret |-> best.ret, hands |-> <<>>]
               ELSE ranked_hands_loop(t, rank, i + 1,
                        Append(acc, [principal |-> p, rank |-> best.rank,
                                     cards |-> best.all_cards]))

\* Table::get_ranked_hands
get_ranked_hands(t, rank) ==
    LET r == ranked_hands_loop(t, rank, 1, <<>>) IN
    IF r.ret # "Ok" THEN r
    ELSE [ret |-> "Ok", hands |-> sort_by_rank_desc(r.hands)]

\* a set_sorted_users that ranks the hands and stores nothing
set_sorted_users_unset(t, rank, winners_total_amount) ==
    LET r == get_ranked_hands(t, rank) IN
    IF r.ret # "Ok" THEN [table |-> t, ret |-> r.ret]
    ELSE [table |-> t, ret |-> "Ok"]

\* Table::set_sorted_users; sorted_users is <<>> for None and <<v>> for Some(v)
set_sorted_users(t, rank, winners_total_amount) ==
    LET r == get_ranked_hands(t, rank) IN
    IF r.ret # "Ok" THEN [table |-> t, ret |-> r.ret]
    ELSE [table |->
            [t EXCEPT !.sorted_users =
               <<[i \in 1 .. Len(r.hands) |->
                    [principal |-> r.hands[i].principal,
                     rank |-> r.hands[i].rank,
                     amount_won |->
                       IF r.hands[i].principal \in DOMAIN winners_total_amount
                       THEN winners_total_amount[r.hands[i].principal]
                       ELSE 0]]>>],
          ret |-> "Ok"]

\* Table::confirm_side_pots
confirm_side_pots(t) ==
    [t EXCEPT !.side_pots =
        [k \in 1 .. Len(t.side_pots) |->
            IF t.side_pots[k].pot > t.side_pots[k].confirmed_pot
            THEN confirm_pot(t.side_pots[k])
            ELSE t.side_pots[k]]]

\* Table::rotate_dealer (from the specification): the button moves to the
\* next occupied seat
RECURSIVE next_occupied(_, _, _)
next_occupied(seats, i, tried) ==
    LET j == (i + 1) % Len(seats) IN
    IF tried >= Len(seats) THEN i
    ELSE IF seats[j + 1] # Empty THEN j
    ELSE next_occupied(seats, j, tried + 1)

rotate_dealer(t) ==
    [table |-> [t EXCEPT !.dealer_position = next_occupied(t.seats, @, 0)],
     ret |-> "Ok"]

\* Table::number_of_players (from the specification): the occupied seats
number_of_players(t) == Len(occupied_principals(t.seats))

\* Table::all_players_folded (from the specification): at most one seated
\* player has not folded
all_players_folded(t) ==
    Cardinality({p \in DOMAIN t.user_table_data :
                    t.user_table_data[p].player_action # "Folded"}) <= 1

\* Rake::calculate_rake (from the specification): a percentage of the pot up
\* to a cap
calculate_rake(rake, pot, player_count) ==
    Min((pot * rake.percentage) \div 100, rake.cap)

\* a.saturating_sub(b) on u64
saturating_sub(a, b) == IF b >= a THEN 0 ELSE a - b

\* a rake that is taken whatever the currency
takes_rake_of_any_currency(t) == t.config.enable_rake = "Some(true)"

\* whether showdown takes rake: enable_rake is Some(true) and the currency is Real
takes_rake(t) ==
    t.config.enable_rake = "Some(true)" /\ t.config.currency_type = "Real"

\* self.rake_config.clone().unwrap_or(Rake::new(..)?): new_rake is what
\* Rake::new returns for this table, <<rake>> for Ok(rake) and <<>> for an error
rake_in_force(t, new_rake) ==
    IF t.rake_config = <<>> THEN new_rake[1] ELSE t.rake_config[1]

\* Rake::new(..)? is evaluated before unwrap_or looks at rake_config: when the
\* table takes rake and Rake::new fails, showdown returns its error
rake_fails(t, new_rake) == takes_rake(t) /\ new_rake = <<>>

\* self.rake_total = Some(self.rake_total.unwrap_or(0) + rake)
add_rake_total(t, rake) ==
    [t EXCEPT !.rake_total = <<(IF @ = <<>> THEN 0 ELSE @[1]) + rake>>]

\* the principals of the hands that tie with the first of the ranked hands
tied_users(hands) ==
    IF hands = <<>> THEN <<>>
    ELSE LET tied == SelectSeq(hands, LAMBDA h : h.rank = hands[1].rank)
         IN  [i \in 1 .. Len(tied) |-> tied[i].principal]

\* user.deposit(individual_share) for every tied user
deposit_shares(t, tied, individual_share) ==
    [t EXCEPT !.users =
        [p \in DOMAIN t.users |->
            IF p \in Range(tied)
            THEN [t.users[p] EXCEPT !.balance = @ + individual_share]
            ELSE t.users[p]]]

\* *winners_total_amount.entry(user).or_insert(0) += individual_share
add_winnings(winners_total_amount, tied, individual_share) ==
    [p \in DOMAIN winners_total_amount \cup Range(tied) |->
        (IF p \in DOMAIN winners_total_amount THEN winners_total_amount[p] ELSE 0)
          + (IF p \in Range(tied) THEN individual_share ELSE 0)]

\* log_hands that keep the cards whoever has folded
log_hands_shown(t, hands, individual_shares) ==
    [i \in 1 .. Len(hands) |->
        [user |-> hands[i].principal,
         cards |-> hands[i].cards,
         amount_won |-> IF hands[i].principal \in DOMAIN individual_shares
                        THEN individual_shares[hands[i].principal]
                        ELSE 0]]

\* the log_hands of a pot: cards are dropped when all players but one folded
log_hands(t, hands, individual_shares) ==
    [i \in 1 .. Len(hands) |->
        [user |-> hands[i].principal,
         cards |-> IF all_players_folded(t) THEN <<>> ELSE hands[i].cards,
         amount_won |-> IF hands[i].principal \in DOMAIN individual_shares
                        THEN individual_shares[hands[i].principal]
                        ELSE 0]]

\* the ranked hands a side pot is paid from, with no regard to who is in it
eligible_hands_of_all(ranked_hands, pot) == ranked_hands

\* the ranked hands a side pot is paid from: those of its user_principals
eligible_hands(ranked_hands, pot) ==
    SelectSeq(ranked_hands, LAMBDA h : h.principal \in pot.user_principals)

\* one turn of showdown's loop over the side pots: s is the table, the
\* winners_total_amount so far and the shares paid from the earlier side pots
distribute_side_pot(s, ranked_hands, side_pot, new_rake) ==
    LET t    == s.table
        inner_ranked_hands == eligible_hands(ranked_hands, side_pot)
        rake == IF takes_rake(t)
                THEN calculate_rake(rake_in_force(t, new_rake),
                                    side_pot.confirmed_pot, number_of_players(t))
                ELSE 0
        confirmed_pot == saturating_sub(side_pot.confirmed_pot, rake)
        t1   == IF takes_rake(t) THEN add_rake_total(t, rake) ELSE t
        tied == tied_users(inner_ranked_hands)
        individual_share == IF tied = <<>> THEN 0 ELSE confirmed_pot \div Len(tied)
        individual_shares == [p \in Range(tied) |-> individual_share]
        t2   == deposit_shares(t1, tied, individual_share)
    IN  IF rake_fails(t, new_rake) THEN [s EXCEPT !.ret = "RakeError"] ELSE
        [table |-> log_action(t2,
                      [type |-> "PlayersHandsRankedSidePot",
                       hands |-> log_hands(t2, inner_ranked_hands, individual_shares)]),
         ret |-> "Ok",
         winners_total_amount |->
             add_winnings(s.winners_total_amount, tied, individual_share),
         side_shares |-> Append(s.side_shares, individual_shares),
         pots_paid |-> Append(s.pots_paid, confirmed_pot)]

\* showdown's loop over self.side_pots.clone(), from the k-th side pot on
RECURSIVE distribute_side_pots(_, _, _, _, _)
distribute_side_pots(s, ranked_hands, side_pots, k, new_rake) ==
    IF k > Len(side_pots) \/ s.ret # "Ok" THEN s
    ELSE distribute_side_pots(
             distribute_side_pot(s, ranked_hands, side_pots[k], new_rake),
             ranked_hands, side_pots, k + 1, new_rake)

\* showdown from the rake of the main pot on; s is what the side pot loop left
distribute_main_pot(s, ranked_hands, rank, new_rake) ==
    LET t    == s.table
        rake == IF takes_rake(t)
                THEN calculate_rake(rake_in_force(t, new_rake), t.pot,
                                    number_of_players(t))
                ELSE 0
        t1   == IF takes_rake(t)
                THEN add_rake_total([t EXCEPT !.pot = saturating_sub(@, rake)], rake)
                ELSE t
        tied == tied_users(ranked_hands)
    IN  IF s.ret # "Ok"
        THEN [table |-> t, ret |-> s.ret, side_shares |-> s.side_shares,
              main_shares |-> <<>>, pots_paid |-> s.pots_paid]
        ELSE IF rake_fails(t, new_rake)
        THEN [table |-> t, ret |-> "RakeError", side_shares |-> s.side_shares,
              main_shares |-> <<>>, pots_paid |-> s.pots_paid]
        ELSE IF tied # <<>>
        THEN LET individual_share == t1.pot \div Len(tied)
                 t2 == [deposit_shares(t1, tied, individual_share)
                           EXCEPT !.winners = tied]
                 u  == set_sorted_users(t2, rank,
                           add_winnings(s.winners_total_amount, tied, individual_share))
             IN  [table |-> IF u.ret # "Ok" THEN u.table
                            ELSE [u.table EXCEPT !.pot = 0, !.side_pots = <<>>],
                  ret |-> u.ret,
                  side_shares |-> s.side_shares,
                  main_shares |-> [p \in Range(tied) |-> individual_share],
                  pots_paid |-> Append(s.pots_paid, t1.pot)]
        ELSE LET t2 == log_action(t1,
                          [type |-> "PlayersHandsRankedMainPot",
                           hands |-> log_hands(t1, ranked_hands, <<>>)])
                 u  == set_sorted_users(t2, rank, s.winners_total_amount)
             IN  [table |-> IF u.ret # "Ok" THEN u.table
                            ELSE [u.table EXCEPT !.pot = 0, !.side_pots = <<>>],
                  ret |-> u.ret,
                  side_shares |-> s.side_shares,
                  main_shares |-> <<>>,
                  pots_paid |-> Append(s.pots_paid, t1.pot)]

\* Table::showdown: the table it leaves, its result, the shares it paid from
\* each side pot and from the main pot, and pots_paid, the amount of each side
\* pot and then of the main pot once the rake was subtracted
showdown(t, rank, new_rake) ==
    LET r == get_ranked_hands(t, rank) IN
    IF r.ret # "Ok"
    THEN [table |-> t, ret |-> r.ret, side_shares |-> <<>>, main_shares |-> <<>>,
          pots_paid |-> <<>>]
    ELSE
      LET d == rotate_dealer(log_action(t, [type |-> "Stage", stage |-> t.deal_stage]))
      IN  IF d.ret # "Ok"
          THEN [table |-> d.table, ret |-> d.ret,
                side_shares |-> <<>>, main_shares |-> <<>>, pots_paid |-> <<>>]
          ELSE LET t1 == confirm_side_pots(d.table)
                   s  == distribute_side_pots(
                             [table |-> t1, ret |-> "Ok",
                              winners_total_amount |-> <<>>, side_shares |-> <<>>,
                              pots_paid |-> <<>>],
                             r.hands, t1.side_pots, 1, new_rake)
               IN  distribute_main_pot(s, r.hands, rank, new_rake)


(***************************************************************************)
(* The showdown specification: a table of three seated players A, B, C     *)
(* (principals 1, 2, 3) at the end of the betting, with a main pot and up   *)
(* to MaxSidePots confirmed side pots, on which showdown runs once.        *)
(***************************************************************************)
MaxRank == 3
MaxSidePots == 2

ShowdownSeats == <<1, 2, 3>>

RankMaps == [Range(ShowdownSeats) -> 1 .. MaxRank]

MainPots == {3, 20}

\* the side pots a table may hold: who is in it and its confirmed total
SidePotChoices ==
    {[user_principals |-> {1, 2, 3}, pot |-> 30, confirmed_pot |-> 30],
     [user_principals |-> {2, 3}, pot |-> 40, confirmed_pot |-> 40],
     [user_principals |-> {1, 3}, pot |-> 7, confirmed_pot |-> 7]}

RECURSIVE SeqsUpTo(_, _)
SeqsUpTo(S, n) ==
    IF n = 0 THEN {<<>>}
    ELSE LET shorter == SeqsUpTo(S, n - 1) IN
         shorter \cup {Append(q, x) : q \in {y \in shorter : Len(y) = n - 1}, x \in S}

Rakes == {[percentage |-> 5, cap |-> 1], [percentage |-> 10, cap |-> 3]}

\* a rake whose calculation returns more than a small pot holds
LargeRake == [percentage |-> 150, cap |-> 5]

\* enable_rake, currency_type, rake_config and rake_total of the table, and
\* the rake Rake::new gives for it
RakeSetups ==
    {[enable_rake |-> "None", currency_type |-> "Real", rake_config |-> <<>>,
      rake_total |-> <<>>, new_rake |-> <<[percentage |-> 5, cap |-> 1]>>],
     [enable_rake |-> "Some(false)", currency_type |-> "Real", rake_config |-> <<>>,
      rake_total |-> <<>>, new_rake |-> <<[percentage |-> 5, cap |-> 1]>>],
     [enable_rake |-> "Some(true)", currency_type |-> "Fake", rake_config |-> <<>>,
      rake_total |-> <<>>, new_rake |-> <<[percentage |-> 5, cap |-> 1]>>],
     [enable_rake |-> "Some(false)", currency_type |-> "Real",
      rake_config |-> <<[percentage |-> 10, cap |-> 3]>>,
      rake_total |-> <<4>>, new_rake |-> <<[percentage |-> 5, cap |-> 1]>>],
     [enable_rake |-> "Some(true)", currency_type |-> "Real", rake_config |-> <<>>,
      rake_total |-> <<>>, new_rake |-> <<[percentage |-> 5, cap |-> 1]>>],
     [enable_rake |-> "Some(true)", currency_type |-> "Real",
      rake_config |-> <<[percentage |-> 10, cap |-> 3]>>,
      rake_total |-> <<4>>, new_rake |-> <<[percentage |-> 5, cap |-> 1]>>],
     [enable_rake |-> "Some(true)", currency_type |-> "Real",
      rake_config |-> <<LargeRake>>,
      rake_total |-> <<4>>, new_rake |-> <<[percentage |-> 5, cap |-> 1]>>]}

\* tables that take rake and for which Rake::new returns an error
FailingRakeSetups ==
    {[enable_rake |-> "Some(true)", currency_type |-> "Real", rake_config |-> <<>>,
      rake_total |-> <<>>, new_rake |-> <<>>],
     [enable_rake |-> "Some(true)", currency_type |-> "Real",
      rake_config |-> <<[percentage |-> 10, cap |-> 3]>>,
      rake_total |-> <<4>>, new_rake |-> <<>>]}

\* the k hole cards of principal p and the first n community cards
hole_cards_of(p, k) == [i \in 1 .. k |-> (p - 1) * 5 + i - 1]
board_of(n) == [i \in 1 .. n |-> 19 + i]

\* a table on which showdown is about to run
showdown_entry(game_type, n_community, folded, pot, side_pots, setup) ==
    [config |-> [game_type |-> game_type, seats |-> Len(ShowdownSeats),
                 enable_rake |-> setup.enable_rake,
                 currency_type |-> setup.currency_type],
     seats |-> ShowdownSeats,
     users |-> [p \in Range(ShowdownSeats) |-> [balance |-> StartBalance]],
     user_table_data |->
         [p \in Range(ShowdownSeats) |->
             [player_action |->
                  IF p \in folded THEN "Folded"
                  ELSE IF \E k \in 1 .. Len(side_pots) :
                             p \notin side_pots[k].user_principals
                       THEN "AllIn" ELSE "Called",
              cards |-> hole_cards_of(p, num_hole_cards(game_type)),
              current_total_bet |-> 0]],
     community_cards |-> board_of(n_community),
     pot |-> pot,
     side_pots |-> side_pots,
     deal_stage |-> "Showdown",
     small_blind |-> SmallBlind,
     big_blind |-> BigBlind,
     dealer_position |-> 0,
     winners |-> "None",
     sorted_users |-> <<>>,
     action_logs |-> <<>>,
     rake_config |-> setup.rake_config,
     rake_total |-> setup.rake_total]

NoRake ==
    CHOOSE setup \in RakeSetups :
        setup.enable_rake = "Some(false)" /\ setup.rake_config = <<>>

ShowdownInit ==
    /\ \E rank \in RankMaps :
        /\ env = [rank |-> rank]
        /\ \/ \E folded \in {f \in SUBSET Range(ShowdownSeats) : Cardinality(f) <= 1},
                 pot \in MainPots,
                 side_pots \in SeqsUpTo(SidePotChoices, MaxSidePots),
                 setup \in RakeSetups :
                /\ table = showdown_entry("NoLimit", 5, folded, pot, side_pots, setup)
                /\ op = [name |-> "start", new_rake |-> setup.new_rake]
           \/ \E folded \in {f \in SUBSET Range(ShowdownSeats) : Cardinality(f) = 2},
                 game_type \in {"NoLimit", "PotLimitOmaha4", "PotLimitOmaha5"},
                 n_community \in {0, 3, 5},
                 side_pots \in {<<>>} \cup {<<side_pot>> : side_pot \in SidePotChoices} :
                /\ table = showdown_entry(game_type, n_community, folded, 20, side_pots, NoRake)
                /\ op = [name |-> "start", new_rake |-> NoRake.new_rake]
           \/ \E away \in Range(ShowdownSeats),
                 player_action \in {"SittingOut", "Joining"},
                 pot \in MainPots :
                \E folded \in SUBSET (Range(ShowdownSeats) \ {away}) :
                /\ table = [showdown_entry("NoLimit", 5, folded, pot, <<>>, NoRake)
                              EXCEPT !.user_table_data[away].player_action = player_action,
                                     !.user_table_data[away].cards = <<>>]
                /\ op = [name |-> "start", new_rake |-> NoRake.new_rake]
           \/ \E side_pots \in SeqsUpTo(SidePotChoices, MaxSidePots),
                 pot \in MainPots,
                 setup \in FailingRakeSetups :
                /\ table = showdown_entry("NoLimit", 5, {}, pot, side_pots, setup)
                /\ op = [name |-> "start", new_rake |-> setup.new_rake]
    /\ prev = table
    /\ ret = "Ok"
    /\ fd = NoFd /\ runs = NoRuns

Showdown ==
    /\ op.name = "start"
    /\ LET r == showdown(table, env.rank, op.new_rake) IN
       /\ table' = r.table
       /\ ret' = r.ret
       /\ op' = [name |-> "showdown", side_shares |-> r.side_shares,
                 main_shares |-> r.main_shares, pots_paid |-> r.pots_paid]
    /\ prev' = table
    /\ UNCHANGED <<env, fd, runs>>

ShowdownNext == Showdown

SpecShowdown == ShowdownInit /\ [][ShowdownNext]_vars

\* the sum of f[p] over the principals p of S
RECURSIVE SumOver(_, _)
SumOver(f, S) ==
    IF S = {} THEN 0
    ELSE LET p == CHOOSE x \in S : TRUE IN f[p] + SumOver(f, S \ {p})

\* the sum of the confirmed totals of the side pots
RECURSIVE SumConfirmed(_)
SumConfirmed(side_pots) ==
    IF side_pots = <<>> THEN 0
    ELSE Head(side_pots).confirmed_pot + SumConfirmed(Tail(side_pots))

\* what showdown credited to the balances, and what it added to rake_total
Credited ==
    SumOver([p \in DOMAIN table.users |->
                table.users[p].balance - prev.users[p].balance],
            DOMAIN table.users)

RakeTaken ==
    (IF table.rake_total = <<>> THEN 0 ELSE table.rake_total[1])
      - (IF prev.rake_total = <<>> THEN 0 ELSE prev.rake_total[1])

\* C5 (as claimed): after every successful showdown the amount credited to
\* the balances plus the increase of rake_total equals the main pot plus the
\* confirmed totals of the side pots at entry; no chip is created or
\* destroyed.
C5_ShowdownConservesMoney ==
    (op.name = "showdown" /\ ret = "Ok") =>
        Credited + RakeTaken = prev.pot + SumConfirmed(prev.side_pots)

\* the players of a side pot that showdown ranks: in the pot and not folded
LiveIn(side_pot) ==
    {p \in side_pot.user_principals :
        prev.user_table_data[p].player_action # "Folded"}

\* those of a set of players with the highest hand rank
TopRanked(players) ==
    {p \in players : \A q \in players : env.rank[q] <= env.rank[p]}

\* what principal p was paid from the side pots and the main pot together
PaidTo(p) ==
    SumOver([k \in 1 .. Len(op.side_shares) |->
                IF p \in DOMAIN op.side_shares[k] THEN op.side_shares[k][p] ELSE 0],
            1 .. Len(op.side_shares))
      + (IF p \in DOMAIN op.main_shares THEN op.main_shares[p] ELSE 0)

\* C10: at a successful showdown every side pot is paid to exactly the
\* players with the highest rank among those who are in the pot and have not
\* folded, and to no one else: a player outside the pot gets nothing from
\* it however good the hand, and every balance grows by exactly the shares
\* the player was paid.
C10_SidePotPaidToBestEligible ==
    (op.name = "showdown" /\ ret = "Ok") =>
        /\ Len(op.side_shares) = Len(prev.side_pots)
        /\ \A k \in 1 .. Len(prev.side_pots) :
              /\ DOMAIN op.side_shares[k] = TopRanked(LiveIn(prev.side_pots[k]))
              /\ DOMAIN op.side_shares[k] \subseteq prev.side_pots[k].user_principals
        /\ \A p \in DOMAIN table.users :
              table.users[p].balance = prev.users[p].balance + PaidTo(p)

\* a showdown where the best hand of the table is outside a side pot, which
\* is won by the better of the two players in it, one share above zero
C10_Witness ==
    /\ op.name = "showdown" /\ ret = "Ok"
    /\ \E k \in 1 .. Len(prev.side_pots) :
         \E a \in Range(prev.seats) \ prev.side_pots[k].user_principals :
           /\ prev.user_table_data[a].player_action # "Folded"
           /\ \A q \in Range(prev.seats) \ {a} : env.rank[q] < env.rank[a]
           /\ Cardinality(DOMAIN op.side_shares[k]) = 1
           /\ \A w \in DOMAIN op.side_shares[k] :
                /\ op.side_shares[k][w] > 0
                /\ w # a
                /\ \E l \in LiveIn(prev.side_pots[k]) : env.rank[l] < env.rank[w]


(***************************************************************************)
(* Betting                                                                 *)
(*                                                                         *)
(* Table::bet, Table::user_fold and Table::set_deal_stage are in table.rs, *)
(* outside the files at hand.  They are written here from the              *)
(* specification and from what the tests of tests/pot_limit.rs and         *)
(* tests/plo_tests.rs observe of them.  Amounts are in whole chips (the    *)
(* tests' convert_to_e8s(1.0) is one chip).                                *)
(***************************************************************************)
is_pot_limit(game_type) ==
    game_type \in {"PotLimit", "PotLimitOmaha4", "PotLimitOmaha5"}

\* the chips in the middle: the pot and the bets of the round not yet in it
live_pot(t) ==
    t.pot + SumOver([q \in DOMAIN t.user_table_data |->
                        t.user_table_data[q].current_total_bet],
                    DOMAIN t.user_table_data)

\* a pot-limit maximum that leaves out the call of the raiser
pot_limit_max_without_call(t, p) ==
    t.highest_bet + live_pot(t)

\* the pot-limit maximum raise-to of player p, as the tests compute it: the
\* last bet plus the pot after p's call
pot_limit_max_raise_to(t, p) ==
    LET last_bet       == t.highest_bet
        pot_before     == live_pot(t) - last_bet
        call_amount    == last_bet - t.user_table_data[p].current_total_bet
        pot_after_call == pot_before + last_bet + call_amount
    IN  last_bet + pot_after_call

\* a funds check that lets every raise through
insufficient_funds_never(t, p, amount) == FALSE

\* a player cannot raise more than their available balance
insufficient_funds(t, p, amount) == amount > t.users[p].balance

\* the turn goes to the next player who can act
advance_turn(t) ==
    [t EXCEPT !.current_player_index = next_to_act(t, @, 0)]

\* player p puts chips more in front of them and takes the action
place_bet(t, p, chips, player_action) ==
    [t EXCEPT !.users[p].balance = @ - chips,
              !.user_table_data[p].current_total_bet = @ + chips,
              !.user_table_data[p].player_action = player_action]

\* a raise that goes all-in for the stack when the stack does not cover it
raise_all_in(t, p, amount) ==
    IF is_pot_limit(t.config.game_type) /\ amount > pot_limit_max_raise_to(t, p)
    THEN [table |-> t, ret |-> "InvalidBetAmount"]
    ELSE IF insufficient_funds(t, p, amount)
    THEN [table |-> advance_turn(
                      [place_bet(t, p, t.users[p].balance, "AllIn")
                          EXCEPT !.is_side_pot_active = TRUE]),
          ret |-> "Ok"]
    ELSE LET t1 == place_bet(t, p,
                       amount - t.user_table_data[p].current_total_bet, "Raised")
         IN  [table |-> advance_turn([t1 EXCEPT !.last_raise = amount - t.highest_bet,
                                                !.highest_bet = amount]),
              ret |-> "Ok"]

\* a raise whose rejection costs the player the turn
raise_turn_lost(t, p, amount) ==
    IF (is_pot_limit(t.config.game_type) /\ amount > pot_limit_max_raise_to(t, p))
         \/ insufficient_funds(t, p, amount)
    THEN [table |-> advance_turn(t), ret |-> "InvalidBetAmount"]
    ELSE LET t1 == place_bet(t, p,
                       amount - t.user_table_data[p].current_total_bet, "Raised")
         IN  [table |-> advance_turn([t1 EXCEPT !.last_raise = amount - t.highest_bet,
                                                !.highest_bet = amount]),
              ret |-> "Ok"]

\* bet(p, BetType::Raised(amount)) of the player to act
raise(t, p, amount) ==
    IF is_pot_limit(t.config.game_type) /\ amount > pot_limit_max_raise_to(t, p)
    THEN [table |-> t, ret |-> "InvalidBetAmount"]
    ELSE IF insufficient_funds(t, p, amount)
    THEN [table |-> t, ret |-> "InsufficientFunds"]
    ELSE LET t1 == place_bet(t, p,
                       amount - t.user_table_data[p].current_total_bet, "Raised")
         IN  [table |-> advance_turn([t1 EXCEPT !.last_raise = amount - t.highest_bet,
                                                !.highest_bet = amount]),
              ret |-> "Ok"]

\* bet(p, BetType::Called) of the player to act: a call the stack does not
\* cover is an all-in for the stack and opens a side pot
call(t, p) ==
    LET to_call == t.highest_bet - t.user_table_data[p].current_total_bet IN
    IF to_call > t.users[p].balance
    THEN [table |-> advance_turn(
                      [place_bet(t, p, t.users[p].balance, "AllIn")
                          EXCEPT !.is_side_pot_active = TRUE]),
          ret |-> "Ok"]
    ELSE [table |-> advance_turn(place_bet(t, p, to_call, "Called")), ret |-> "Ok"]

\* whether it is p's turn
is_players_turn(t, p) == t.seats[t.current_player_index + 1] = p

\* Table::bet
bet(t, p, bet_type) ==
    IF ~is_players_turn(t, p) THEN [table |-> t, ret |-> "NotPlayersTurn"]
    ELSE IF bet_type.type = "Raised" THEN raise(t, p, bet_type.amount)
    ELSE call(t, p)

\* Table::user_fold: the chips p has bet stay in the middle
user_fold(t, p) ==
    IF ~is_players_turn(t, p) THEN [table |-> t, ret |-> "NotPlayersTurn"]
    ELSE [table |-> advance_turn(
                      [t EXCEPT !.user_table_data[p].player_action = "Folded"]),
          ret |-> "Ok"]

\* the players still in the hand, and those of them who can still bet
in_hand(t) ==
    {q \in DOMAIN t.user_table_data :
        t.user_table_data[q].player_action \notin {"Folded", "SittingOut", "Joining"}}

can_bet(t) ==
    {q \in in_hand(t) : t.user_table_data[q].player_action # "AllIn"}

\* the betting round is closed: one player is left, or every player who can
\* bet has acted and has matched the highest bet
round_closed(t) ==
    \/ Cardinality(in_hand(t)) <= 1
    \/ \A q \in can_bet(t) :
          /\ t.user_table_data[q].player_action # "None"
          /\ t.user_table_data[q].current_total_bet = t.highest_bet

\* the bets that go to the pot, those of folded players left out
bets_of_players_in_hand(t) ==
    SumOver([q \in DOMAIN t.user_table_data |->
                IF q \in in_hand(t) THEN t.user_table_data[q].current_total_bet ELSE 0],
            DOMAIN t.user_table_data)

\* the bets that go to the pot when the stage advances: what every player
\* has in front of them
bets_of_round(t) ==
    SumOver([q \in DOMAIN t.user_table_data |->
                t.user_table_data[q].current_total_bet],
            DOMAIN t.user_table_data)

\* Table::set_deal_stage: the bets of the round are confirmed into the pot
set_deal_stage(t, deal_stage) ==
    [t EXCEPT !.pot = @ + bets_of_round(t),
              !.user_table_data =
                  [q \in DOMAIN @ |-> [@[q] EXCEPT !.current_total_bet = 0]],
              !.deal_stage = deal_stage]


(***************************************************************************)
(* The betting specification: the first betting round of the tables of     *)
(* the tests, from the posting of the blinds to the advance of the stage.  *)
(* The round is followed until a call goes all-in: the making of side pots *)
(* (side_pot.rs) is outside the files at hand.                             *)
(***************************************************************************)
MaxBets == 5

RaiseAmounts == {3, 5, 6, 7, 10, 12, 13}

\* the tables of the tests: the balances of the players in seat order and
\* the seat of the dealer button
BetSetups ==
    {[game_type |-> g, balances |-> <<b, 100>>, dealer_position |-> 1] :
        g \in {"PotLimit", "PotLimitOmaha4", "PotLimitOmaha5"}, b \in {3, 4, 100}}
    \cup
    {[game_type |-> "PotLimit", balances |-> <<150, 150, 150>>, dealer_position |-> d] :
        d \in {0, 2}}

\* the table of a setup before the blinds are posted
bet_entry(setup) ==
    LET n == Len(setup.balances) IN
    [config |-> [game_type |-> setup.game_type, seats |-> n,
                 enable_rake |-> "None", currency_type |-> "Fake"],
     seats |-> [k \in 1 .. n |-> k],
     users |-> [q \in 1 .. n |-> [balance |-> setup.balances[q]]],
     user_table_data |->
         [q \in 1 .. n |-> [player_action |-> "None",
                            cards |-> hole_cards_of(q, num_hole_cards(setup.game_type)),
                            current_total_bet |-> 0]],
     pot |-> 0,
     side_pots |-> <<>>,
     is_side_pot_active |-> FALSE,
     deal_stage |-> "Flop",
     small_blind |-> SmallBlind,
     big_blind |-> BigBlind,
     small_blind_user_principal |-> None,
     big_blind_user_principal |-> None,
     dealer_position |-> setup.dealer_position,
     current_player_index |-> 0,
     highest_bet |-> 0,
     highest_bet_in_pot |-> 0,
     last_raise |-> 0]

BetTypes ==
    {[type |-> "Called", amount |-> 0]}
      \cup {[type |-> "Raised", amount |-> x] : x \in RaiseAmounts}

BetInit ==
    /\ \E setup \in BetSetups :
         /\ table = post_blinds(bet_entry(setup))
         /\ env = [rank |-> <<>>, start_balance |-> setup.balances]
    /\ prev = table
    /\ op = [name |-> "start", principal |-> None,
             bet_type |-> [type |-> "None", amount |-> 0], steps |-> 0]
    /\ ret = "Ok"
    /\ fd = NoFd /\ runs = NoRuns

\* a player may be asked to bet or fold while the round is open
RoundOpen ==
    /\ ~round_closed(table)
    /\ ~table.is_side_pot_active
    /\ op.name # "set_deal_stage"
    /\ op.steps < MaxBets

Bet(p, bet_type) ==
    /\ RoundOpen
    /\ bet_type.type = "Raised" => bet_type.amount > table.highest_bet
    /\ LET r == bet(table, p, bet_type) IN
       /\ table' = r.table
       /\ ret' = r.ret
       /\ op' = [name |-> "bet", principal |-> p, bet_type |-> bet_type,
                 steps |-> op.steps + (IF r.ret = "Ok" THEN 1 ELSE 0)]
    /\ prev' = table
    /\ UNCHANGED <<env, fd, runs>>

UserFold(p) ==
    /\ RoundOpen
    /\ LET r == user_fold(table, p) IN
       /\ table' = r.table
       /\ ret' = r.ret
       /\ op' = [name |-> "user_fold", principal |-> p,
                 bet_type |-> [type |-> "None", amount |-> 0],
                 steps |-> op.steps + (IF r.ret = "Ok" THEN 1 ELSE 0)]
    /\ prev' = table
    /\ UNCHANGED <<env, fd, runs>>

SetDealStage ==
    /\ round_closed(table)
    /\ ~table.is_side_pot_active
    /\ op.name # "set_deal_stage"
    /\ table' = set_deal_stage(table, "Flop")
    /\ ret' = "Ok"
    /\ op' = [name |-> "set_deal_stage", principal |-> None,
              bet_type |-> [type |-> "None", amount |-> 0], steps |-> op.steps]
    /\ prev' = table
    /\ UNCHANGED <<env, fd, runs>>

BetNext ==
    \/ \E p \in DOMAIN table.users, bet_type \in BetTypes : Bet(p, bet_type)
    \/ \E p \in DOMAIN table.users : UserFold(p)
    \/ SetDealStage

SpecBet == BetInit /\ [][BetNext]_vars

\* the chips principal p has put in since the start of the round, blinds
\* included
Contributed(p) == env.start_balance[p] - table.users[p].balance

ToAct(t) == t.seats[t.current_player_index + 1]

BetToMatch(t) ==
    CHOOSE b \in {t.user_table_data[q].current_total_bet : q \in DOMAIN t.user_table_data} :
        \A q \in DOMAIN t.user_table_data : t.user_table_data[q].current_total_bet <= b

\* current_bet_to_match + (confirmed_pot + uncommitted_round_bets + amount_to_call)
RuleOfThreeMax(t, p) ==
    BetToMatch(t)
      + (t.pot
         + SumOver([q \in DOMAIN t.user_table_data |->
                       t.user_table_data[q].current_total_bet],
                   DOMAIN t.user_table_data)
         + (BetToMatch(t) - t.user_table_data[p].current_total_bet))

\* the step was a Raised from the player to act at a pot-limit table
PotLimitRaise ==
    /\ op.name = "bet"
    /\ op.bet_type.type = "Raised"
    /\ op.principal = ToAct(prev)
    /\ is_pot_limit(prev.config.game_type)

\* the raise of the step was accepted: the player's bet is now the amount
RaiseAccepted ==
    /\ ret = "Ok"
    /\ table.user_table_data[op.principal].current_total_bet = op.bet_type.amount

ChipsPut ==
    table.user_table_data[op.principal].current_total_bet
      - prev.user_table_data[op.principal].current_total_bet

\* the step was a bet of the player to act that asks for more than the stack
BetOverStack ==
    /\ op.name = "bet"
    /\ op.principal = ToAct(prev)
    /\ \/ /\ op.bet_type.type = "Called"
          /\ BetToMatch(prev) - prev.user_table_data[op.principal].current_total_bet
                > prev.users[op.principal].balance
       \/ /\ op.bet_type.type = "Raised"
          /\ op.bet_type.amount > prev.users[op.principal].balance

\* the bet of the step was taken as an all-in for the stack and opened a
\* side pot
TakenAsAllIn ==
    /\ ret = "Ok"
    /\ table.user_table_data[op.principal].player_action = "AllIn"
    /\ ChipsPut = prev.users[op.principal].balance
    /\ table.users[op.principal].balance = 0
    /\ table.is_side_pot_active

C9_RaiseOverBalanceRejected ==
    (PotLimitRaise /\ prev.users[op.principal].balance < op.bet_type.amount) =>
        /\ ret # "Ok"
        /\ table = prev

\* the raise of the test: to 5, within the pot limit of 6, from the small
\* blind who has 2 chips left of 3
C9_Witness ==
    /\ PotLimitRaise
    /\ op.bet_type.amount = 5
    /\ op.bet_type.amount <= RuleOfThreeMax(prev, op.principal)
    /\ env.start_balance[op.principal] = 3
    /\ prev.users[op.principal].balance = 2
    /\ ret = "InsufficientFunds"
    /\ table = prev


(***************************************************************************)
(* Further properties of Table::showdown                                   *)
(***************************************************************************)
\* how far seat index i is to the left of the dealer button of table t
SeatsLeftOfDealer(t, i) == (i - t.dealer_position - 1) % Len(t.seats)

\* of a set of seated principals, the one closest to the left of the dealer
ClosestLeftOfDealer(t, players) ==
    CHOOSE p \in players :
        \A q \in players :
            \A i, j \in 1 .. Len(t.seats) :
                (t.seats[i] = p /\ t.seats[j] = q) =>
                    SeatsLeftOfDealer(t, i - 1) <= SeatsLeftOfDealer(t, j - 1)

\* a pot of amount chips was split as the specification says: every winner
\* has the floor of the equal share, the winner closest to the left of the
\* dealer has the remainder on top
SplitWithRemainder(shares, amount) ==
    LET n == Cardinality(DOMAIN shares) IN
    \A p \in DOMAIN shares :
        shares[p] = (amount \div n)
                      + (IF p = ClosestLeftOfDealer(prev, DOMAIN shares)
                         THEN amount % n ELSE 0)

\* C11 (as claimed): when showdown splits a pot, main or side, among n tied
\* winners (no rake taken), each is credited floor(pot / n) and the
\* remainder goes to the tied winner closest to the left of the dealer, so
\* the whole pot is paid out.
C11_RemainderPaidLeftOfDealer ==
    (op.name = "showdown" /\ ret = "Ok" /\ ~takes_rake(prev)) =>
        /\ DOMAIN op.main_shares # {} =>
              /\ SplitWithRemainder(op.main_shares, prev.pot)
              /\ SumOver(op.main_shares, DOMAIN op.main_shares) = prev.pot
        /\ \A k \in 1 .. Len(op.side_shares) :
              DOMAIN op.side_shares[k] # {} =>
                  /\ SplitWithRemainder(op.side_shares[k],
                                        prev.side_pots[k].confirmed_pot)
                  /\ SumOver(op.side_shares[k], DOMAIN op.side_shares[k])
                        = prev.side_pots[k].confirmed_pot


(***************************************************************************)
(* Further properties of Table::deal_cards                                 *)
(***************************************************************************)
\* the stage after a stage in which deal_cards deals
StageAfter(deal_stage) ==
    CASE deal_stage = "Opening" -> "Flop"
      [] deal_stage = "Flop" -> "Turn"
      [] deal_stage = "Turn" -> "River"
      [] deal_stage = "River" -> "Showdown"
      [] OTHER -> deal_stage

\* C12: a successful deal_cards call in stage Opening, Flop, Turn or River
\* moves deal_stage to the next stage of Opening, Flop, Turn, River,
\* Showdown; a call in stage Showdown or Fresh leaves it as it is; no call,
\* failed or not, skips a stage or moves back.
C12_StageAdvancesByOne ==
    op.name = "deal_cards" =>
        /\ ret = "Ok" => table.deal_stage = StageAfter(prev.deal_stage)
        /\ table.deal_stage \in {prev.deal_stage, StageAfter(prev.deal_stage)}
        /\ prev.deal_stage \in {"Showdown", "Fresh"} =>
              table.deal_stage = prev.deal_stage

\* the river was dealt and the stage went from River to Showdown
C12_Witness ==
    /\ op.name = "deal_cards" /\ ret = "Ok"
    /\ prev.deal_stage = "River"
    /\ table.deal_stage = "Showdown"
    /\ Len(table.community_cards) = 5

\* the hole cards a game type deals to a player
HoleCardsOf(game_type) ==
    CASE game_type = "PotLimitOmaha4" -> 4
      [] game_type = "PotLimitOmaha5" -> 5
      [] OTHER -> 2

\* the seated principals of the table
Seated == Range(table.seats) \ {Empty}

\* C13: once the Opening deal is done every seated player who is not
\* sitting out holds exactly k hole cards, k = 4 for PotLimitOmaha4, 5 for
\* PotLimitOmaha5 and 2 for every other game type; a player who is sitting
\* out holds none, and no card leaves the deck for a seated player without
\* table data.
C13_HoleCardsPerPlayer ==
    /\ table.deal_stage \in {"Flop", "Turn", "River", "Showdown"} =>
          \A p \in Seated \cap DOMAIN table.user_table_data :
              Len(table.user_table_data[p].cards) =
                  IF table.user_table_data[p].player_action = "SittingOut"
                  THEN 0 ELSE HoleCardsOf(table.config.game_type)
    /\ (op.name = "deal_cards" /\ prev.deal_stage = "Opening" /\ ret = "Ok") =>
          Len(table.deck) = Len(prev.deck)
              - HoleCardsOf(table.config.game_type)
                  * Cardinality({p \in Seated \cap DOMAIN table.user_table_data :
                        table.user_table_data[p].player_action # "SittingOut"})

\* a PotLimitOmaha5 table right after the Opening deal: one player sitting
\* out with no card, the others with five
C13_Witness ==
    /\ op.name = "deal_cards" /\ ret = "Ok"
    /\ prev.deal_stage = "Opening"
    /\ table.config.game_type = "PotLimitOmaha5"
    /\ \E p \in DOMAIN table.user_table_data :
          /\ table.user_table_data[p].player_action = "SittingOut"
          /\ table.user_table_data[p].cards = <<>>
    /\ \E p \in DOMAIN table.user_table_data :
          Len(table.user_table_data[p].cards) = 5

\* the seated players of table t who are dealt hole cards, in seat order
\* starting with the first seat to the left of the dealer
DealtFromLeftOfDealer(t) ==
    LET n     == Len(t.seats)
        round == [j \in 1 .. n |-> t.seats[((t.dealer_position + j) % n) + 1]]
    IN  SelectSeq(round,
            LAMBDA p : /\ p # Empty
                       /\ p \in DOMAIN t.user_table_data
                       /\ t.user_table_data[p].player_action # "SittingOut")

\* the j-th card deal takes off a deck
NthDealt(cards, j) == cards[Len(cards) - j + 1]

\* C14 (as claimed): the hole cards are dealt one at a time in k passes
\* around the table, and in every pass the first card goes to the first
\* player, not sitting out, to the left of the dealer, the next cards to the
\* players after in seat order, for every dealer position.
C14_DealtFromLeftOfDealer ==
    (op.name = "deal_cards" /\ prev.deal_stage = "Opening" /\ ret = "Ok") =>
        LET order == DealtFromLeftOfDealer(prev)
            m     == Len(order)
        IN  \A i \in 1 .. HoleCardsOf(prev.config.game_type), j \in 1 .. m :
                table.user_table_data[order[j]].cards[i]
                    = NthDealt(prev.deck, (i - 1) * m + j)

\* the community cards on the board once deal_cards has brought the round to
\* a stage
BoardAt(deal_stage) ==
    CASE deal_stage = "Turn" -> 3
      [] deal_stage = "River" -> 4
      [] deal_stage = "Showdown" -> 5
      [] OTHER -> 0

\* C15 (as claimed): every community phase burns one card before it deals:
\* the flop takes 4 cards off the deck and puts 3 on the board, the turn and
\* the river take 2 and put 1; so in a round driven by deal_cards the board
\* has 0 cards while deal_stage is Opening or Flop, 3 when it is Turn, 4 when
\* it is River and 5 when it is Showdown.
C15_BoardFollowsStage ==
    /\ table.deal_stage \in {"Opening", "Flop", "Turn", "River", "Showdown"} =>
          Len(table.community_cards) = BoardAt(table.deal_stage)
    /\ (op.name = "deal_cards" /\ ret = "Ok"
          /\ prev.deal_stage \in {"Flop", "Turn", "River"}) =>
          LET dealt == IF prev.deal_stage = "Flop" THEN 3 ELSE 1 IN
          /\ Len(table.community_cards) = Len(prev.community_cards) + dealt
          /\ Len(table.deck) = Len(prev.deck) - dealt - 1
          /\ Len(table.burned) = Len(prev.burned) + 1

\* the provenance records of the current round of the table that hold card c
RecordsOf(c) ==
    {k \in DOMAIN table.card_provenance :
        /\ table.card_provenance[k].round_id = table.round_ticker
        /\ table.card_provenance[k].card = c}

\* card c has exactly one record of the current round, and it says the card
\* went to dealt_to at dealt_at_stage
RecordedAs(c, dealt_to, dealt_at_stage) ==
    /\ Cardinality(RecordsOf(c)) = 1
    /\ \A k \in RecordsOf(c) :
          /\ table.card_provenance[k].dealt_to = dealt_to
          /\ table.card_provenance[k].dealt_at_stage = dealt_at_stage

\* the stage in which the i-th community card is dealt
StageOfBoardCard(i) ==
    CASE i <= 3 -> "Flop"
      [] i = 4 -> "Turn"
      [] OTHER -> "River"

\* C16: with the 52 provenance records of the round created beforehand,
\* every hole card a player holds has exactly one record of the round, with
\* dealt_to the player and dealt_at_stage Opening, and every community card
\* has exactly one, with dealt_to None and dealt_at_stage Flop for the first
\* three, Turn for the fourth and River for the fifth.
C16_DealtCardsHaveProvenance ==
    /\ \A p \in DOMAIN table.user_table_data :
          \A i \in 1 .. Len(table.user_table_data[p].cards) :
              RecordedAs(table.user_table_data[p].cards[i], p, "Opening")
    /\ \A i \in 1 .. Len(table.community_cards) :
          RecordedAs(table.community_cards[i], None, StageOfBoardCard(i))

\* the end of a round: hole cards and five community cards, the river card
\* recorded at River
C16_Witness ==
    /\ op.name = "deal_cards" /\ ret = "Ok"
    /\ table.deal_stage = "Showdown"
    /\ Len(table.community_cards) = 5
    /\ RecordedAs(table.community_cards[5], None, "River")
    /\ RecordedAs(table.community_cards[1], None, "Flop")
    /\ \E p \in DOMAIN table.user_table_data :
          /\ Len(table.user_table_data[p].cards) = 2
          /\ RecordedAs(table.user_table_data[p].cards[2], p, "Opening")

\* the stage of the community cards dealt right after the b-th burn
StageOfBurn(b) ==
    CASE b = 1 -> "Flop"
      [] b = 2 -> "Turn"
      [] OTHER -> "River"

\* C17 (as claimed): every burned card has its provenance record of the
\* current round written: dealt_at_stage is the stage of the community cards
\* dealt right after the burn, dealt_to is None.
C17_BurnsHaveProvenance ==
    \A b \in 1 .. Len(table.burned) :
        RecordedAs(table.burned[b], None, StageOfBurn(b))

\* the provenance records the step has changed
RewrittenRecords ==
    {k \in DOMAIN prev.card_provenance \cap DOMAIN table.card_provenance :
        table.card_provenance[k] # prev.card_provenance[k]}

\* the cards the step has given to the players and the board
CardsGiven ==
    (Len(table.community_cards) - Len(prev.community_cards))
      + SumOver([p \in DOMAIN table.user_table_data |->
                    Len(table.user_table_data[p].cards)
                      - Len(prev.user_table_data[p].cards)],
                DOMAIN table.user_table_data)

\* C18: dealing never rewrites the provenance of an earlier round: a
\* deal_cards call keeps the set of record keys, changes at most one record
\* per card it gives out, only records whose round_id is the current
\* round_ticker, and of those only dealt_to and dealt_at_stage.
C18_EarlierRoundsNotRewritten ==
    op.name = "deal_cards" =>
        /\ DOMAIN table.card_provenance = DOMAIN prev.card_provenance
        /\ table.round_ticker = prev.round_ticker
        /\ Cardinality(RewrittenRecords) <= CardsGiven
        /\ \A k \in RewrittenRecords :
              /\ prev.card_provenance[k].round_id = prev.round_ticker
              /\ table.card_provenance[k].round_id = prev.card_provenance[k].round_id
              /\ table.card_provenance[k].card = prev.card_provenance[k].card

\* a flop: three records of the current round rewritten, while the records
\* of the round before hold the same cards, some of them not dealt
C18_Witness ==
    /\ op.name = "deal_cards" /\ ret = "Ok"
    /\ prev.deal_stage = "Flop"
    /\ Cardinality(RewrittenRecords) = 3
    /\ \A k \in RewrittenRecords :
          \E o \in DOMAIN table.card_provenance :
             /\ table.card_provenance[o].round_id # table.round_ticker
             /\ table.card_provenance[o].card = table.card_provenance[k].card
    /\ \E k \in RewrittenRecords :
          \E o \in DOMAIN table.card_provenance :
             /\ table.card_provenance[o].round_id # table.round_ticker
             /\ table.card_provenance[o].card = table.card_provenance[k].card
             /\ table.card_provenance[o].dealt_to = None
             /\ table.card_provenance[o].dealt_at_stage = "None"

\* the entries of sorted_users that are of principal p
EntriesOf(p) ==
    {i \in 1 .. Len(table.sorted_users[1]) : table.sorted_users[1][i].principal = p}

\* C19 (amended): a successful showdown produces exactly one ranked entry
\* for every seated player whose action is not Folded, SittingOut or
\* Joining, and none for any other player; the entries are in descending
\* order of rank.
C19_OneEntryPerPlayerInHand ==
    (op.name = "showdown" /\ ret = "Ok") =>
        /\ \A p \in Range(prev.seats) \ {Empty} :
              Cardinality(EntriesOf(p)) =
                  IF prev.user_table_data[p].player_action
                        \in {"Folded", "SittingOut", "Joining"}
                  THEN 0 ELSE 1
        /\ \A i \in 1 .. Len(table.sorted_users[1]) :
              /\ table.sorted_users[1][i].principal \in Range(prev.seats)
              /\ table.sorted_users[1][i].rank = env.rank[table.sorted_users[1][i].principal]
        /\ \A i, j \in 1 .. Len(table.sorted_users[1]) :
              i < j => table.sorted_users[1][i].rank >= table.sorted_users[1][j].rank

\* a showdown with a folded player and a player sitting out, neither of
\* them ranked, and one entry for the third player
C19_Witness ==
    /\ op.name = "showdown" /\ ret = "Ok"
    /\ \E p \in Range(prev.seats) :
          prev.user_table_data[p].player_action = "SittingOut" /\ EntriesOf(p) = {}
    /\ \E p \in Range(prev.seats) :
          prev.user_table_data[p].player_action = "Folded" /\ EntriesOf(p) = {}
    /\ Len(table.sorted_users[1]) = 1

\* C19 (as claimed): a successful showdown produces exactly one ranked entry
\* for every seated player who has not folded, whatever the player's other
\* status, and none for a folded player.
C19_OneEntryPerNonFolded ==
    (op.name = "showdown" /\ ret = "Ok") =>
        \A p \in Range(prev.seats) \ {Empty} :
            Cardinality(EntriesOf(p)) =
                IF prev.user_table_data[p].player_action = "Folded" THEN 0 ELSE 1

(***************************************************************************)
(* Table::get_best_omaha_hand on its own                                   *)
(*                                                                         *)
(* Hand::rank_five is outside the files at hand.  A rank is a number from  *)
(* 1 to NumRanks that depends on the five cards but not on their order;    *)
(* key selects one such ranking.  Rank::HighCard(0) is 0.                  *)
(***************************************************************************)
NumRanks == 7
MaxKey == 3

RECURSIVE SumCards(_)
SumCards(cards) ==
    IF cards = <<>> THEN 0 ELSE Head(cards) + 1 + SumCards(Tail(cards))

rank_five(cards, key) == ((key * SumCards(cards)) % NumRanks) + 1

\* hole cards of the two Omaha variants, and of a player with too few cards
OmahaHoles ==
    { <<0, 14, 28, 42>>, <<3, 4, 18, 33>>, <<12, 25, 38, 51>>,
      <<0, 14, 28, 42, 5>>, <<7, 8, 9, 10, 11>>, <<2, 16>>, <<6>> }

\* the board at the flop, the turn and the river, and before the flop
OmahaBoards ==
    { <<1, 15, 29>>, <<20, 21, 22>>, <<1, 15, 29, 43>>, <<1, 15, 29, 43, 6>>,
      <<19, 27, 35, 44, 50>>, <<13, 26>>, <<>> }

OmahaInit ==
    /\ fd = <<>>
    /\ runs = 0
    /\ table = <<>>
    /\ prev = <<>>
    /\ \E hole_cards \in OmahaHoles, community_cards \in OmahaBoards, key \in 1 .. MaxKey :
         env = [hole_cards |-> hole_cards, community_cards |-> community_cards, key |-> key]
    /\ op = [name |-> "start"]
    /\ ret = "Ok"

GetBestOmahaHand ==
    /\ op.name = "start"
    /\ LET best == get_best_omaha_hand(env.hole_cards, env.community_cards,
                       [five \in Seq(Cards) |-> rank_five(five, env.key)])
       IN  /\ op' = [name |-> "get_best_omaha_hand", best |-> best]
           /\ ret' = best.ret
    /\ UNCHANGED <<fd, runs, table, prev, env>>

OmahaNext == GetBestOmahaHand

SpecOmaha == OmahaInit /\ [][OmahaNext]_vars

\* the hands of n_hole hole cards and n_community community cards, as tuples
\* of positions in env.hole_cards and env.community_cards, increasing
PositionsOf(cards, k) ==
    {s \in SUBSET (1 .. Len(cards)) : Cardinality(s) = k}

RECURSIVE InOrder(_, _)
InOrder(cards, positions) ==
    IF positions = {} THEN <<>>
    ELSE LET i == CHOOSE i \in positions : \A j \in positions : i <= j
         IN  <<cards[i]>> \o InOrder(cards, positions \ {i})

HandAt(h, c) == InOrder(env.hole_cards, h) \o InOrder(env.community_cards, c)

RankAt(h, c) == rank_five(HandAt(h, c), env.key)

\* a set of positions comes before another one when it is the smaller one at
\* the first position where they differ
ComesBefore(a, b) ==
    \E i \in a \ b : /\ \A j \in b \ a : i < j

\* hand (h1, c1) is enumerated before hand (h2, c2)
EnumeratedBefore(h1, c1, h2, c2) ==
    \/ ComesBefore(h1, h2)
    \/ h1 = h2 /\ ComesBefore(c1, c2)

OmahaDone == op.name = "get_best_omaha_hand" /\ ret = "Ok"

\* C20: the rank returned for an Omaha player is the maximum of the 5-card
\* ranks over every choice of exactly 2 hole cards and exactly 3 community
\* cards, the hand retained is the earliest enumerated one of that rank, and
\* it has exactly 2 hole cards and 3 community cards.
C20_BestOfTwoPlusThree ==
    OmahaDone =>
        LET two   == PositionsOf(env.hole_cards, 2)
            three == PositionsOf(env.community_cards, 3)
        IN  /\ \E h \in two, c \in three :
                  /\ op.best.rank = RankAt(h, c)
                  /\ op.best.hand = HandAt(h, c)
                  /\ \A h2 \in two, c2 \in three :
                        /\ RankAt(h2, c2) <= RankAt(h, c)
                        /\ RankAt(h2, c2) = RankAt(h, c) =>
                              (h2 = h /\ c2 = c) \/ EnumeratedBefore(h, c, h2, c2)
            /\ Cardinality(Range(op.best.hand) \cap Range(env.hole_cards)) = 2
            /\ Cardinality(Range(op.best.hand) \cap Range(env.community_cards)) = 3

\* five hole cards and five community cards, a hand of 3 hole cards and 2
\* community cards that outranks the rank returned, and two hands of 2 hole
\* cards and 3 community cards that share the rank returned
C20_Witness ==
    /\ OmahaDone
    /\ Len(env.hole_cards) = 5
    /\ Len(env.community_cards) = 5
    /\ \E h \in PositionsOf(env.hole_cards, 3), c \in PositionsOf(env.community_cards, 2) :
          RankAt(h, c) > op.best.rank
    /\ \E h1, h2 \in PositionsOf(env.hole_cards, 2), c1, c2 \in PositionsOf(env.community_cards, 3) :
          /\ <<h1, c1>> # <<h2, c2>>
          /\ RankAt(h1, c1) = op.best.rank
          /\ RankAt(h2, c2) = op.best.rank

(***************************************************************************)
(* Showdown when all players but one have folded                           *)
(***************************************************************************)
\* the seated players of table t who have not folded
NotFolded(t) ==
    {p \in Range(t.seats) \ {Empty} : t.user_table_data[p].player_action # "Folded"}

\* showdown has run on a table where exactly one seated player had not folded
LastPlayerShowdown ==
    op.name = "showdown" /\ Cardinality(NotFolded(prev)) = 1

\* C21 (as claimed): when all players but one have folded, at any stage and
\* for every game type, showdown succeeds and the remaining player is credited
\* the whole pot.
C21_LastPlayerTakesPot ==
    LastPlayerShowdown =>
        /\ ret = "Ok"
        /\ \A p \in NotFolded(prev) :
              table.users[p].balance
                  = prev.users[p].balance + prev.pot + SumConfirmed(prev.side_pots)

(***************************************************************************)
(* Failed commands                                                         *)
(***************************************************************************)
\* what a deal reads and writes of table t: the deck, the hole cards, the
\* board, the provenance records, the action log and the stage
DealtState(t) ==
    [deck |-> t.deck,
     cards |-> [p \in DOMAIN t.user_table_data |-> t.user_table_data[p].cards],
     community_cards |-> t.community_cards,
     card_provenance |-> t.card_provenance,
     action_logs |-> t.action_logs,
     deal_stage |-> t.deal_stage]

\* C22 (as claimed): a deal_cards call that returns an error leaves the deck,
\* the hole cards, the community cards, the provenance records, the action
\* log and deal_stage as they were before the call.
C22_FailedDealChangesNothing ==
    (op.name = "deal_cards" /\ ret # "Ok") => DealtState(table) = DealtState(prev)

\* what the claim lists of the table showdown works on
ShowdownState(t) ==
    [dealer_position |-> t.dealer_position,
     balances |-> [p \in DOMAIN t.users |-> t.users[p].balance],
     pot |-> t.pot,
     side_pots |-> t.side_pots,
     rake_total |-> t.rake_total,
     action_logs |-> t.action_logs]

\* C23 (as claimed): a showdown call that returns an error leaves the dealer
\* position, the balances, the main pot, the side pots, rake_total and the
\* action log as they were before the call.
C23_FailedShowdownChangesNothing ==
    (op.name = "showdown" /\ ret # "Ok") => ShowdownState(table) = ShowdownState(prev)

\* the last step was a Raised(amount) from the player to act that was rejected
RaiseRejected ==
    /\ op.name = "bet"
    /\ op.bet_type.type = "Raised"
    /\ ToAct(prev) = op.principal
    /\ ret # "Ok"

\* the raise amounts the table accepts from player p
LegalRaises(t, p) ==
    {x \in RaiseAmounts :
        x > t.highest_bet /\ bet(t, p, [type |-> "Raised", amount |-> x]).ret = "Ok"}

\* C24: a rejected Raised(amount) leaves the turn, the player's
\* current_total_bet and balance, highest_bet and the pot as they were, and
\* every raise that was legal for the player before is accepted after.
C24_RejectedRaiseChangesNothing ==
    RaiseRejected =>
        LET p == op.principal IN
        /\ table.current_player_index = prev.current_player_index
        /\ table.user_table_data[p].current_total_bet
              = prev.user_table_data[p].current_total_bet
        /\ table.users[p].balance = prev.users[p].balance
        /\ table.highest_bet = prev.highest_bet
        /\ table.pot = prev.pot
        /\ table = prev
        /\ LegalRaises(table, p) = LegalRaises(prev, p)

\* the raise of the tests: 10 from the small blind of a heads-up Omaha table
\* is over the pot limit and is rejected, and the same player may raise to 3
C24_Witness ==
    /\ RaiseRejected
    /\ IsOmaha(table.config.game_type)
    /\ op.bet_type.amount = 10
    /\ ret = "InvalidBetAmount"
    /\ 3 \in LegalRaises(table, op.principal)

(***************************************************************************)
(* Dealing from a table whose ledger lacks records of the current round    *)
(*                                                                         *)
(* card_provenance is a public field of Table and of StorableTable, and    *)
(* update_card_provenance has a branch for the card it does not find: the  *)
(* tables below are those on which that branch is taken.                   *)
(***************************************************************************)
Ledgers == {"no_records", "earlier_round_only", "half_pruned"}

\* the ledger of a table in round r that lacks records of that round
ledger_of(ledger, r) ==
    CASE ledger = "no_records" -> <<>>
      [] ledger = "earlier_round_only" ->
           [k \in {r - 1} \X Cards |-> provenance_at_start(r)[k]]
      [] OTHER ->
           [k \in {r} \X {c \in Cards : c % 2 = 0} |-> provenance_at_start(r)[k]]

LedgerInit ==
    /\ \E S \in MinSeats .. MaxSeats, game_type \in GameTypes, bytes \in DealSeeds,
          ledger \in Ledgers :
         table = [round_start(seats_of(S, "full"), {}, {}, game_type, bytes, 0, 2)
                     EXCEPT !.card_provenance = ledger_of(ledger, 2)]
    /\ prev = table
    /\ op = [name |-> "start"]
    /\ ret = "Ok"
    /\ env = NoEnv /\ fd = NoFd /\ runs = NoRuns

SpecLedger == LedgerInit /\ [][DealNext]_vars

\* the cards the step has put in the hands and on the board
CardsDealtNow ==
    (Range(table.community_cards) \ Range(prev.community_cards))
      \cup UNION {Range(table.user_table_data[p].cards)
                     \ Range(prev.user_table_data[p].cards) :
                     p \in DOMAIN table.user_table_data}

\* C25 (as claimed): a deal_cards call that deals a card for which the ledger
\* has no undealt record of the current round does not complete normally.
C25_MissingRecordIsFatal ==
    (op.name = "deal_cards"
       /\ \E c \in CardsDealtNow : provenance_matches(prev, c) = {}) =>
        ret # "Ok"

(***************************************************************************)
(* Table and StorableTable (types.rs)                                      *)
(*                                                                         *)
(* A table is converted to its stored form and back, before or after a     *)
(* showdown.  Records are functions of their field names; only the fields  *)
(* the tables of the model have are carried.                               *)
(***************************************************************************)
\* the fields of StorableTable
StorableFields ==
    {"id", "config", "seats", "community_cards", "deck", "pot", "side_pots",
     "status", "deal_stage", "big_blind", "small_blind",
     "big_blind_user_principal", "small_blind_user_principal",
     "dealer_position", "current_player_index", "winners", "sorted_users",
     "action_logs", "user_table_data", "highest_bet", "highest_bet_in_pot",
     "last_raise", "last_raise_principal", "is_side_pot_active", "round_ticker",
     "last_timer_started_timestamp", "users", "queue", "rng_history",
     "card_provenance"}

\* the fields From<StorableTable> for Table fills with a constant
RestoredFields == {"timer", "notifications", "rake_config", "rake_total"}

\* impl From<Table> for StorableTable
storable_table_from(t) ==
    [f \in StorableFields \cap DOMAIN t |-> t[f]]

\* impl From<StorableTable> for Table
table_from(storable_table) ==
    [f \in DOMAIN storable_table \cup RestoredFields |->
        CASE f = "timer" -> "None"
          [] f = "notifications" -> <<>>
          [] f = "rake_config" -> <<>>
          [] f = "rake_total" -> <<>>
          [] OTHER -> storable_table[f]]

\* the hand ranks of the showdowns that are stored and restored
SnapshotRanks == {rank \in RankMaps : rank[1] = 1 /\ rank[2] <= 2}

\* a live table at the end of the betting, with a timer running and a
\* notification waiting
SnapshotInit ==
    /\ \E rank \in SnapshotRanks, pot \in MainPots, setup \in RakeSetups,
          side_pots \in SeqsUpTo(SidePotChoices, MaxSidePots) :
         /\ env = [rank |-> rank]
         /\ table = [f \in DOMAIN showdown_entry("NoLimit", 5, {}, pot, side_pots, setup)
                             \cup {"timer", "notifications"} |->
                        CASE f = "timer" -> "Some(timer)"
                          [] f = "notifications" -> <<"notification">>
                          [] OTHER -> showdown_entry("NoLimit", 5, {}, pot,
                                                     side_pots, setup)[f]]
         /\ op = [name |-> "start", new_rake |-> setup.new_rake]
    /\ prev = table
    /\ ret = "Ok"
    /\ fd = NoFd /\ runs = NoRuns

\* Table::from(StorableTable::from(table))
RoundTrip ==
    /\ op.name \in {"start", "showdown"}
    /\ table' = table_from(storable_table_from(table))
    /\ prev' = table
    /\ op' = [name |-> "round_trip"]
    /\ UNCHANGED <<ret, env, fd, runs>>

SnapshotNext == Showdown \/ RoundTrip

SpecSnapshot == SnapshotInit /\ [][SnapshotNext]_vars

\* C26 (as claimed): a table converted to StorableTable and back equals the
\* original in every field except the timer handle, which is None, and the
\* notification sink, which is empty; the money-related state survives.
C26_RoundTripKeepsTable ==
    op.name = "round_trip" =>
        /\ DOMAIN table = DOMAIN prev
        /\ \A f \in DOMAIN prev \ {"timer", "notifications"} : table[f] = prev[f]
        /\ table.timer = "None"
        /\ table.notifications = <<>>

(***************************************************************************)
(* Hands in sequence: start_betting_round, bets and folds, deal_cards and  *)
(* showdown on one heads-up table, for MaxHands hands.                     *)
(*                                                                         *)
(* start_betting_round is outside the files at hand: from the              *)
(* specification, it shuffles a new deck, increments round_ticker, creates *)
(* the 52 provenance records of the round and posts the blinds.            *)
(***************************************************************************)
MaxHands == 2
MaxHandBets == 2

\* a start_betting_round that keeps the round_ticker of the hand before
start_betting_round_same_ticker(t, bytes) ==
    LET fresh == round_start(t.seats, {}, {}, t.config.game_type, bytes,
                             t.dealer_position, t.round_ticker)
    IN  [fresh EXCEPT !.users =
            [p \in DOMAIN @ |->
                [balance |-> t.users[p].balance - (StartBalance - @[p].balance)]]]

\* Table::start_betting_round(bytes): the stacks are carried over from the
\* hand before
start_betting_round(t, bytes) ==
    LET fresh == round_start(t.seats, {}, {}, t.config.game_type, bytes,
                             t.dealer_position, t.round_ticker + 1)
    IN  [fresh EXCEPT !.users =
            [p \in DOMAIN @ |->
                [balance |-> t.users[p].balance - (StartBalance - @[p].balance)]]]

RoundsInit ==
    /\ \E game_type \in {"NoLimit", "PotLimitOmaha4"} :
         table = round_start(seats_of(MinSeats, "full"), {}, {}, game_type,
                             SeedBytes(9, 1), 0, 1)
    /\ prev = table
    /\ op = [name |-> "start_betting_round", hands |-> 1, bets |-> 0]
    /\ ret = "Ok"
    /\ env = NoEnv /\ fd = NoFd /\ runs = NoRuns

\* the hand is over once showdown has paid the pots
HandOver == op.name = "showdown" /\ ret = "Ok"

StartBettingRound(bytes) ==
    /\ HandOver
    /\ op.hands < MaxHands
    /\ table' = start_betting_round(table, bytes)
    /\ ret' = "Ok"
    /\ op' = [name |-> "start_betting_round", hands |-> op.hands + 1, bets |-> 0]
    /\ prev' = table
    /\ UNCHANGED <<env, fd, runs>>

HandDeal(is_cycling_to_showdown) ==
    /\ ~HandOver
    /\ table.deal_stage # "Showdown"
    /\ LET r == deal_cards(table, is_cycling_to_showdown) IN
       /\ table' = r.table
       /\ ret' = r.ret
    /\ op' = [op EXCEPT !.name = "deal_cards"]
    /\ prev' = table
    /\ UNCHANGED <<env, fd, runs>>

HandBet(p, bet_type) ==
    /\ ~HandOver
    /\ op.bets < MaxHandBets
    /\ Cardinality(NotFolded(table)) > 1
    /\ bet_type.type = "Raised" => bet_type.amount > table.highest_bet
    /\ LET r == bet(table, p, bet_type) IN
       /\ table' = r.table
       /\ ret' = r.ret
    /\ op' = [op EXCEPT !.name = "bet", !.bets = @ + 1]
    /\ prev' = table
    /\ UNCHANGED <<env, fd, runs>>

HandFold(p) ==
    /\ ~HandOver
    /\ op.bets < MaxHandBets
    /\ Cardinality(NotFolded(table)) > 1
    /\ LET r == user_fold(table, p) IN
       /\ table' = r.table
       /\ ret' = r.ret
    /\ op' = [op EXCEPT !.name = "user_fold", !.bets = @ + 1]
    /\ prev' = table
    /\ UNCHANGED <<env, fd, runs>>

HandShowdown(rank) ==
    /\ ~HandOver
    /\ table.deal_stage = "Showdown" \/ Cardinality(NotFolded(table)) = 1
    /\ LET r == showdown(table, rank, <<>>) IN
       /\ table' = r.table
       /\ ret' = r.ret
    /\ op' = [op EXCEPT !.name = "showdown"]
    /\ prev' = table
    /\ UNCHANGED <<env, fd, runs>>

\* the player whose turn it is
PlayerToAct(t) == t.seats[t.current_player_index + 1]

RoundsNext ==
    \/ StartBettingRound(SeedBytes(9, 1 + (table.round_ticker % NumDealSeeds)))
    \/ \E is_cycling_to_showdown \in BOOLEAN : HandDeal(is_cycling_to_showdown)
    \/ \E bet_type \in {[type |-> "Called", amount |-> 0],
                         [type |-> "Raised", amount |-> 4]} :
          HandBet(PlayerToAct(table), bet_type)
    \/ HandFold(PlayerToAct(table))
    \/ \E rank \in {r \in [DOMAIN table.users -> 1 .. 2] : r[1] = 1} : HandShowdown(rank)

SpecRounds == RoundsInit /\ [][RoundsNext]_vars

\* the cards in the hands and on the board
CardsOut(t) ==
    Range(t.community_cards)
      \cup UNION {Range(t.user_table_data[p].cards) : p \in DOMAIN t.user_table_data}

\* C27: round_ticker never decreases; it increases when start_betting_round
\* begins a new hand; bet, fold, deal_cards and showdown leave it as it is,
\* so every card dealt in a hand has its record under the round id of the hand.
C27_RoundTickerMonotonic ==
    /\ table.round_ticker >= prev.round_ticker
    /\ (op.name = "start_betting_round" /\ op.hands > 1) =>
          table.round_ticker > prev.round_ticker
    /\ op.name \in {"bet", "user_fold", "deal_cards", "showdown"} =>
          table.round_ticker = prev.round_ticker
    /\ \A c \in CardsOut(table) :
          \E k \in DOMAIN table.card_provenance :
             /\ table.card_provenance[k].round_id = table.round_ticker
             /\ table.card_provenance[k].card = c
             /\ table.card_provenance[k].dealt_at_stage # "None"

\* the second hand of the table at its showdown: five cards on the board,
\* dealt under the round id that start_betting_round has raised
C27_Witness ==
    /\ op.name = "showdown"
    /\ ret = "Ok"
    /\ op.hands = MaxHands
    /\ table.round_ticker = MaxHands
    /\ Len(table.community_cards) = 5

(***************************************************************************)
(* unbiased_index pass by pass: for one upper, the loop is fed words whose *)
(* low bytes run through 0 .. 255, each once; tally counts the bytes that  *)
(* were accepted for each index.                                           *)
(***************************************************************************)
MaxHigh == 1

IndexInit ==
    /\ \E upper \in 1 .. NumCards :
         env = [upper |-> upper, next_byte |-> 0, tally |-> [r \in 0 .. upper - 1 |-> 0]]
    /\ op = [name |-> "start", word |-> 0, index |-> <<>>]
    /\ ret = "Ok"
    /\ table = NoTable /\ prev = NoTable /\ fd = NoFd /\ runs = NoRuns

\* one pass of the loop over the word: accept and return, or reject and draw
\* again
Draw(word) ==
    /\ env.next_byte < ByteMod
    /\ LET s == sample(word, env.upper) IN
       /\ op' = [name |-> IF s = <<>> THEN "rejected" ELSE "accepted",
                 word |-> word, index |-> s]
       /\ env' = [env EXCEPT !.next_byte = @ + 1,
                             !.tally = IF s = <<>> THEN @
                                       ELSE [@ EXCEPT ![s[1]] = @ + 1]]
    /\ UNCHANGED <<ret, table, prev, fd, runs>>

IndexNext == \E high \in 0 .. MaxHigh : Draw(env.next_byte + ByteMod * high)

SpecIndex == IndexInit /\ [][IndexNext]_vars

\* C28: for every upper in 1 .. 52, the index returned is in [0, upper), a
\* byte is accepted exactly when it is below 256 - (256 mod upper), and once
\* every byte value has been drawn each index has been returned for exactly
\* floor(256 / upper) of them.
C28_UnbiasedIndex ==
    /\ op.name = "accepted" =>
          /\ op.index[1] \in 0 .. env.upper - 1
          /\ op.word % 256 < 256 - (256 % env.upper)
    /\ op.name = "rejected" => op.word % 256 >= 256 - (256 % env.upper)
    /\ env.next_byte = 256 =>
          \A r \in 0 .. env.upper - 1 : env.tally[r] = 256 \div env.upper

\* all 256 byte values drawn for an upper that does not divide 256, the last
\* of them rejected
C28_Witness ==
    /\ env.next_byte = 256
    /\ env.upper = 3
    /\ op.name = "rejected"
    /\ env.tally[0] = 85

\* C29: after start_betting_round on a heads-up table the small-blind player
\* has the small blind as current_total_bet, the big-blind player the big
\* blind, which is twice the small blind, and the bet to match is the big blind.
C29_BlindsPosted ==
    op.name = "start_betting_round" =>
        LET sb == table.small_blind_user_principal
            bb == table.big_blind_user_principal
        IN  /\ sb # bb
            /\ table.user_table_data[sb].current_total_bet = table.small_blind
            /\ table.user_table_data[bb].current_total_bet = table.big_blind
            /\ table.big_blind = 2 * table.small_blind
            /\ table.highest_bet = table.big_blind

\* the blinds of the second hand of the table, posted after the showdown of
\* the first
C29_Witness ==
    /\ op.name = "start_betting_round"
    /\ op.hands = 2
    /\ table.user_table_data[table.small_blind_user_principal].current_total_bet = 1
    /\ table.user_table_data[table.big_blind_user_principal].current_total_bet = 2
    /\ \E p \in DOMAIN table.users : table.users[p].balance # StartBalance - 1
                                      /\ table.users[p].balance # StartBalance - 2

(***************************************************************************)
(* The hands showdown writes to the action log                             *)
(***************************************************************************)
\* the entries showdown appended to the action log
AppendedLogs ==
    {table.action_logs[k] : k \in Len(prev.action_logs) + 1 .. Len(table.action_logs)}

HandRankingLogs ==
    {e \in AppendedLogs :
        e.type \in {"PlayersHandsRankedSidePot", "PlayersHandsRankedMainPot"}}

\* C30: when all players but one have folded, every hand-ranking entry that
\* showdown appends to the action log has an empty card list for every player.
C30_FoldedOutHandsAreMucked ==
    (op.name = "showdown" /\ Cardinality(NotFolded(prev)) = 1) =>
        \A e \in HandRankingLogs :
           \A i \in DOMAIN e.hands : e.hands[i].cards = <<>>

\* a showdown with one player left that logged that player's hand for a side
\* pot, the player holding hole cards
C30_Witness ==
    /\ op.name = "showdown"
    /\ ret = "Ok"
    /\ Cardinality(NotFolded(prev)) = 1
    /\ \E e \in HandRankingLogs :
          /\ e.type = "PlayersHandsRankedSidePot"
          /\ \E i \in DOMAIN e.hands :
                /\ e.hands[i].amount_won > 0
                /\ prev.user_table_data[e.hands[i].user].cards # <<>>

(***************************************************************************)
(* The betting markers between stages                                      *)
(***************************************************************************)
\* highest_bet, highest_bet_in_pot and last_raise of table t
BettingMarkers(t) == <<t.highest_bet, t.highest_bet_in_pot, t.last_raise>>

\* C31: a successful deal_cards in stage Opening leaves highest_bet,
\* highest_bet_in_pot and last_raise as they were, the big blind staying the
\* bet to match; a successful deal_cards in any other stage sets the three to 0.
C31_MarkersResetBetweenStages ==
    (op.name = "deal_cards" /\ ret = "Ok") =>
        IF prev.deal_stage = "Opening"
        THEN /\ BettingMarkers(table) = BettingMarkers(prev)
             /\ table.highest_bet = table.big_blind
        ELSE BettingMarkers(table) = <<0, 0, 0>>

\* the flop dealt on a table where the big blind was the bet to match
C31_Witness ==
    /\ op.name = "deal_cards"
    /\ ret = "Ok"
    /\ prev.deal_stage = "Flop"
    /\ prev.highest_bet = prev.big_blind
    /\ prev.last_raise > 0
    /\ Len(table.community_cards) = 3
    /\ table.highest_bet = 0

(***************************************************************************)
(* Rake at showdown                                                        *)
(***************************************************************************)
\* the table showdown ran on has rake enabled and plays for a real currency
RakeConfigured ==
    prev.config.enable_rake = "Some(true)" /\ prev.config.currency_type = "Real"

\* C32: when enable_rake is None or Some(false), or the currency is Fake, a
\* successful showdown leaves rake_total as it was and shares out the whole
\* of the main pot and of every side pot among the winners of the pot.
C32_NoRakeUnlessEnabledAndReal ==
    (op.name = "showdown" /\ ret = "Ok" /\ ~RakeConfigured) =>
        /\ table.rake_total = prev.rake_total
        /\ \A k \in 1 .. Len(prev.side_pots) :
              \A p \in DOMAIN op.side_shares[k] :
                 op.side_shares[k][p] =
                    prev.side_pots[k].confirmed_pot
                       \div Cardinality(DOMAIN op.side_shares[k])
        /\ \A p \in DOMAIN op.main_shares :
              op.main_shares[p] = prev.pot \div Cardinality(DOMAIN op.main_shares)

\* rake enabled on a table that plays for a fake currency: a side pot and
\* the main pot paid in full to one winner each
C32_Witness ==
    /\ op.name = "showdown" /\ ret = "Ok"
    /\ prev.config.enable_rake = "Some(true)"
    /\ prev.config.currency_type = "Fake"
    /\ Len(prev.side_pots) > 0
    /\ \E p \in DOMAIN op.side_shares[1] :
          op.side_shares[1][p] = prev.side_pots[1].confirmed_pot
    /\ \E p \in DOMAIN op.main_shares : op.main_shares[p] = prev.pot /\ prev.pot = 20

\* by how much showdown reduced its pots before it shared them out: the
\* confirmed side pots first, the main pot last
RECURSIVE Reduced(_, _)
Reduced(before, paid) ==
    IF before = <<>> \/ paid = <<>> THEN 0
    ELSE (Head(before) - Head(paid)) + Reduced(Tail(before), Tail(paid))

PotsAtEntry ==
    LET side_pots == confirm_side_pots(prev).side_pots
    IN  Append([k \in 1 .. Len(side_pots) |-> side_pots[k].confirmed_pot], prev.pot)

\* C33 (as claimed): in every successful showdown the increase of rake_total
\* is the sum, over the side pots and the main pot, of the amount by which
\* the pot was reduced before it was shared out, whatever the rake
\* calculation returns, a rake larger than the pot included.
C33_RakeTotalIsWhatWasDeducted ==
    (op.name = "showdown" /\ ret = "Ok") =>
        /\ Len(op.pots_paid) = Len(PotsAtEntry)
        /\ RakeTaken = Reduced(PotsAtEntry, op.pots_paid)

(***************************************************************************)
(* Side pots whose players have all folded                                 *)
(***************************************************************************)
\* C34 (as claimed): in every successful showdown each side pot with a
\* confirmed amount above zero has at least one recipient credited from it
\* before side_pots is cleared, also when every player of the side pot has
\* folded.
C34_EverySidePotIsPaid ==
    (op.name = "showdown" /\ ret = "Ok") =>
        /\ table.side_pots = <<>>
        /\ \A k \in 1 .. Len(prev.side_pots) :
              prev.side_pots[k].confirmed_pot > 0 => DOMAIN op.side_shares[k] # {}

(***************************************************************************)
(* PublicTable (types.rs)                                                  *)
(***************************************************************************)
\* the fields of Table that PublicTable has too
PublicFields ==
    {"id", "config", "seats", "community_cards", "pot", "side_pots", "status",
     "deal_stage", "big_blind", "small_blind", "dealer_position",
     "current_player_index", "winners", "sorted_users", "action_logs",
     "user_table_data", "highest_bet", "last_raise", "round_ticker",
     "last_timer_started_timestamp", "users", "queue"}

\* a public table that carries the deck as well
public_table_with_deck(t) ==
    [f \in (PublicFields \cup {"deck"}) \cap DOMAIN t |-> t[f]]

\* impl From<Table> for PublicTable: the public fields, each copied
public_table_from(t) ==
    [f \in PublicFields \cap DOMAIN t |-> t[f]]

\* PublicTable::is_game_ongoing
is_game_ongoing(public_table) ==
    /\ public_table.deal_stage # "Opening"
    /\ public_table.deal_stage # "Fresh"
    /\ public_table.sorted_users = <<>>

\* C35: after a successful showdown the main pot is 0, side_pots is empty and
\* sorted_users is set, so is_game_ongoing of the public table is false; it
\* was true when showdown was called in stage Showdown with sorted_users
\* unset, and it stays true when showdown fails.
C35_GameOverAfterShowdown ==
    /\ (op.name = "showdown" /\ ret = "Ok") =>
          /\ table.pot = 0
          /\ table.side_pots = <<>>
          /\ Len(table.sorted_users) = 1
          /\ ~is_game_ongoing(public_table_from(table))
    /\ op.name = "showdown" => is_game_ongoing(public_table_from(prev))
    /\ (op.name = "showdown" /\ ret # "Ok") => is_game_ongoing(public_table_from(table))
    /\ op.name = "start" => is_game_ongoing(public_table_from(table))

\* a showdown that paid a main pot and two side pots and ranked three players
C35_Witness ==
    /\ op.name = "showdown" /\ ret = "Ok"
    /\ prev.pot > 0
    /\ Len(prev.side_pots) = 2
    /\ Len(table.sorted_users[1]) = 3
    /\ \E i \in 1 .. 3 : table.sorted_users[1][i].amount_won > 0

(***************************************************************************)
(* sorted_users, the ranked output of showdown                             *)
(***************************************************************************)
\* the seat index of principal p on the table showdown ran on
SeatIndexOf(p) == CHOOSE k \in DOMAIN prev.seats : prev.seats[k] = p

\* C36: after a successful showdown the entries of sorted_users are in order
\* of hand rank, best first, entries of equal rank in seat order, and the
\* amount_won of each entry is what showdown credited to the balance of the
\* player from the main pot and the side pots together.
C36_SortedUsersRankedWithWinnings ==
    (op.name = "showdown" /\ ret = "Ok") =>
        LET sorted_users == table.sorted_users[1] IN
        /\ \A i, j \in DOMAIN sorted_users :
              i < j =>
                 \/ sorted_users[i].rank > sorted_users[j].rank
                 \/ /\ sorted_users[i].rank = sorted_users[j].rank
                    /\ SeatIndexOf(sorted_users[i].principal)
                          < SeatIndexOf(sorted_users[j].principal)
        /\ \A i \in DOMAIN sorted_users :
              sorted_users[i].amount_won =
                 table.users[sorted_users[i].principal].balance
                   - prev.users[sorted_users[i].principal].balance

\* three ranked players, the first two of equal rank: one won from a side
\* pot and the main pot, the last won nothing
C36_Witness ==
    /\ op.name = "showdown" /\ ret = "Ok"
    /\ Len(table.sorted_users[1]) = 3
    /\ table.sorted_users[1][1].rank = table.sorted_users[1][2].rank
    /\ table.sorted_users[1][3].rank < table.sorted_users[1][2].rank
    /\ table.sorted_users[1][3].amount_won = 0
    /\ \E i \in 1 .. 2 :
          LET p == table.sorted_users[1][i].principal IN
          /\ p \in DOMAIN op.main_shares
          /\ \E k \in 1 .. Len(op.side_shares) : p \in DOMAIN op.side_shares[k]
          /\ table.sorted_users[1][i].amount_won > op.main_shares[p]

(***************************************************************************)
(* The big-blind lookups of PublicTable (types.rs)                         *)
(***************************************************************************)
\* the loop of both lookups: from seat index on, for `remaining` more turns;
\* <<index>> of the second occupied seat met whose player has table data,
\* <<>> when the turns run out
RECURSIVE big_blind_scan(_, _, _, _)
big_blind_scan(public_table, index, found_small_blind, remaining) ==
    IF remaining = 0 THEN <<>>
    ELSE LET user_principal == public_table.seats[index + 1]
             next == (index + 1) % Len(public_table.seats)
         IN  IF user_principal = Empty
             THEN big_blind_scan(public_table, next, found_small_blind, remaining - 1)
             ELSE IF found_small_blind
                       /\ user_principal \in DOMAIN public_table.user_table_data
             THEN <<index>>
             ELSE big_blind_scan(public_table, next, TRUE, remaining - 1)

\* PublicTable::get_big_blind_user_index: seats.len() turns
get_big_blind_user_index(public_table) ==
    big_blind_scan(public_table,
                   (public_table.dealer_position + 1) % Len(public_table.seats),
                   FALSE, Len(public_table.seats))

\* PublicTable::get_big_blind_user_principal: config.seats * 2 turns
get_big_blind_user_principal(public_table) ==
    LET found == big_blind_scan(public_table,
                     (public_table.dealer_position + 1) % Len(public_table.seats),
                     FALSE, public_table.config.seats * 2)
    IN  IF found = <<>> THEN <<>> ELSE <<public_table.seats[found[1] + 1]>>

MaxBlindSeats == 3

\* a seat is empty, or occupied by a player with or without table data
SeatKinds == {"empty", "with_data", "no_data"}

BlindsInit ==
    /\ \E n \in MinSeats .. MaxBlindSeats :
         \E kinds \in [1 .. n -> SeatKinds], dealer_position \in 0 .. n - 1 :
            table = [config |-> [seats |-> n],
                     seats |-> [k \in 1 .. n |->
                                  IF kinds[k] = "empty" THEN Empty ELSE k],
                     user_table_data |->
                        [p \in {k \in 1 .. n : kinds[k] = "with_data"} |->
                            [player_action |-> "None"]],
                     dealer_position |-> dealer_position]
    /\ prev = table
    /\ op = [name |-> "start", index |-> <<>>, principal |-> <<>>]
    /\ ret = "Ok"
    /\ env = NoEnv /\ fd = NoFd /\ runs = NoRuns

BigBlindLookups ==
    /\ op.name = "start"
    /\ op' = [name |-> "lookups",
              index |-> get_big_blind_user_index(table),
              principal |-> get_big_blind_user_principal(table)]
    /\ UNCHANGED <<table, prev, ret, env, fd, runs>>

BlindsNext == BigBlindLookups

SpecBlinds == BlindsInit /\ [][BlindsNext]_vars

\* the occupied seats of the table
OccupiedSeats == {k \in DOMAIN table.seats : table.seats[k] # Empty}

\* C37 (as claimed): get_big_blind_user_principal returns Some(p) exactly
\* when get_big_blind_user_index returns Some(i), p is then the player seated
\* at index i, and both return None when only one seat is occupied.
C37_BigBlindLookupsAgree ==
    op.name = "lookups" =>
        /\ (op.principal = <<>>) <=> (op.index = <<>>)
        /\ op.index # <<>> => op.principal = <<table.seats[op.index[1] + 1]>>
        /\ Cardinality(OccupiedSeats) = 1 =>
              (op.index = <<>> /\ op.principal = <<>>)

(***************************************************************************)
(* Two tables that differ in what the public table leaves out: table is    *)
(* dealt from, prev is table with another deck order, rng_history,         *)
(* card_provenance and timer; env holds the public tables of the two.      *)
(***************************************************************************)
\* table t with the fields timer and rng_history of Table
with_hidden(t, timer, rng_history) ==
    [f \in DOMAIN t \cup {"timer", "rng_history"} |->
        CASE f = "timer" -> timer
          [] f = "rng_history" -> rng_history
          [] OTHER -> t[f]]

Reverse(s) == [k \in 1 .. Len(s) |-> s[Len(s) + 1 - k]]

\* the tables that differ from t in deck order, rng_history, card_provenance
\* and timer, in all four at once or in some of them
HiddenVariants(t) ==
    {[t EXCEPT !.deck = deck, !.rng_history = rng_history,
               !.card_provenance = card_provenance, !.timer = timer] :
        deck \in {t.deck, Reverse(t.deck)},
        rng_history \in {t.rng_history, Append(t.rng_history, t.round_ticker)},
        card_provenance \in {t.card_provenance,
                             provenance_at_start(t.round_ticker + 1)},
        timer \in {<<>>, <<1>>}}

PublicInit ==
    /\ \E game_type \in {"NoLimit", "PotLimitOmaha4"}, bytes \in DealSeeds :
         table = with_hidden(
                    round_start(seats_of(MinSeats + 1, "full"), {}, {}, game_type,
                                bytes, 0, 1),
                    <<>>, <<>>)
    /\ prev = table
    /\ op = [name |-> "start"]
    /\ ret = "Ok"
    /\ env = NoEnv /\ fd = NoFd /\ runs = NoRuns

\* the cards of the next stage are dealt on table
PublicDeal(is_cycling_to_showdown) ==
    /\ op.name # "view"
    /\ table.deal_stage # "Showdown"
    /\ LET r == deal_cards(table, is_cycling_to_showdown) IN
       /\ table' = r.table
       /\ ret' = r.ret
       /\ prev' = r.table
    /\ op' = [name |-> "deal_cards"]
    /\ UNCHANGED <<env, fd, runs>>

\* prev becomes a table that differs from table in the hidden fields only,
\* and both are converted to PublicTable
View ==
    /\ op.name # "view"
    /\ \E other \in HiddenVariants(table) :
          /\ prev' = other
          /\ env' = [first  |-> public_table_from(table),
                     second |-> public_table_from(other)]
    /\ op' = [name |-> "view"]
    /\ UNCHANGED <<table, ret, fd, runs>>

PublicNext ==
    \/ \E is_cycling_to_showdown \in BOOLEAN : PublicDeal(is_cycling_to_showdown)
    \/ View

SpecPublic == PublicInit /\ [][PublicNext]_vars

\* C38: two tables that differ only in deck order, rng_history,
\* card_provenance and timer convert to the same PublicTable.
C38_PublicTableHidesDeck ==
    op.name = "view" => env.first = env.second

\* the flop is out; the second table has the deck in another order, another
\* ledger, another rng_history and a running timer
C38_Witness ==
    /\ op.name = "view"
    /\ Len(table.community_cards) = 3
    /\ prev.deck # table.deck
    /\ prev.card_provenance # table.card_provenance
    /\ prev.rng_history # table.rng_history
    /\ prev.timer # table.timer
    /\ Len(env.first.community_cards) = 3
    /\ env.first.user_table_data = table.user_table_data

(***************************************************************************)
(* The table index canister across an upgrade (table_index/memory.rs).     *)
(* table holds the four states in the heap, env the stable memories of the *)
(* memory manager by MemoryId, each holding the bytes of a Cell.           *)
(***************************************************************************)
StateKinds == <<"public_table_index", "private_table_index", "transaction_state",
                "table_canister_pool">>

\* a layout in which two cells share a memory
MemoryIdsShared ==
    [public_table_index |-> 0, private_table_index |-> 1, transaction_state |-> 1,
     table_canister_pool |-> 4]

\* MemoryId::new(..) of the four cells
MemoryIds ==
    [public_table_index |-> 0, private_table_index |-> 1, transaction_state |-> 3,
     table_canister_pool |-> 4]

MaxIndexValue == 1

\* the contents a state may have; 0 stands for the empty state of new()
IndexValues == 0 .. MaxIndexValue
NewValue == 0

\* Storable::to_bytes: the candid encoding of a value of the kind
to_bytes(kind, value) == [type |-> kind, payload |-> value]

\* Storable::from_bytes: the value when the bytes decode as the kind, the
\* empty state of new() when they do not
from_bytes(kind, bytes) ==
    IF bytes # <<>> /\ bytes.type = kind THEN bytes.payload ELSE NewValue

\* the cells as the thread_local block initialises them, in order, on
\* memories that hold nothing yet
RECURSIVE cells_init(_, _)
cells_init(memories, k) ==
    IF k > Len(StateKinds) THEN memories
    ELSE cells_init([memories EXCEPT ![MemoryIds[StateKinds[k]]] =
                        IF @ = <<>> THEN to_bytes(StateKinds[k], NewValue) ELSE @],
                    k + 1)

\* pre_upgrade: for each state whose lock is taken, cell.set(state.clone())
RECURSIVE pre_upgrade(_, _, _, _)
pre_upgrade(heap, memories, locks, k) ==
    IF k > Len(StateKinds) THEN memories
    ELSE LET kind == StateKinds[k] IN
         pre_upgrade(heap,
                     IF kind \in locks
                     THEN [memories EXCEPT ![MemoryIds[kind]] = to_bytes(kind, heap[kind])]
                     ELSE memories,
                     locks, k + 1)

\* post_upgrade: for each state whose lock is taken, state.clone_from(cell.get())
post_upgrade(heap, memories, locks) ==
    [kind \in DOMAIN heap |->
        IF kind \in locks
        THEN from_bytes(kind, memories[MemoryIds[kind]])
        ELSE heap[kind]]

AllLocks == Range(StateKinds)

\* all the locks, or all but one
LockChoices == {AllLocks} \cup {AllLocks \ {kind} : kind \in AllLocks}

UpgradeInit ==
    /\ table \in [AllLocks -> IndexValues]
    /\ env = cells_init([id \in 0 .. 4 |-> <<>>], 1)
    /\ prev = table
    /\ op = [name |-> "running", saved |-> table, pre_locks |-> {}, post_locks |-> {}]
    /\ ret = "Ok"
    /\ fd = NoFd /\ runs = NoRuns

PreUpgrade(locks) ==
    /\ op.name = "running"
    /\ env' = pre_upgrade(table, env, locks, 1)
    /\ op' = [name |-> "pre_upgrade", saved |-> table, pre_locks |-> locks,
              post_locks |-> {}]
    /\ prev' = table
    /\ UNCHANGED <<table, ret, fd, runs>>

\* the new code is installed: the heap starts anew, the stable memories stay
Install ==
    /\ op.name = "pre_upgrade"
    /\ table' = [kind \in AllLocks |-> NewValue]
    /\ op' = [op EXCEPT !.name = "install"]
    /\ prev' = table
    /\ UNCHANGED <<env, ret, fd, runs>>

PostUpgrade(locks) ==
    /\ op.name = "install"
    /\ table' = post_upgrade(table, env, locks)
    /\ op' = [op EXCEPT !.name = "post_upgrade", !.post_locks = locks]
    /\ prev' = table
    /\ UNCHANGED <<env, ret, fd, runs>>

UpgradeNext ==
    \/ \E locks \in LockChoices : PreUpgrade(locks)
    \/ Install
    \/ \E locks \in LockChoices : PostUpgrade(locks)

SpecUpgrade == UpgradeInit /\ [][UpgradeNext]_vars

AppendedLogTypes ==
    [k \in 1 .. Len(table.action_logs) - Len(prev.action_logs) |->
        table.action_logs[Len(prev.action_logs) + k].type]

\* C40 (as claimed): every successful showdown appends to the action log one
\* Stage entry, then one PlayersHandsRankedSidePot entry for each side pot,
\* then one PlayersHandsRankedMainPot entry, in this order, also when the
\* main pot has a winner.
C40_ShowdownLogsEveryPot ==
    (op.name = "showdown" /\ ret = "Ok") =>
        AppendedLogTypes =
            <<"Stage">>
              \o [k \in 1 .. Len(prev.side_pots) |-> "PlayersHandsRankedSidePot"]
              \o <<"PlayersHandsRankedMainPot">>

=============================================================================
